---- MODULE Spec2Model ----
(***************************************************************************)
(* A model of src/app.py: the amount normaliser clean_amount, the field    *)
(* extractor extract_expense_data and the batch runner                     *)
(* PDFProcessorApp.process_files, run from the Tk event loop.              *)
(*                                                                         *)
(* A Python str is a sequence of characters.  A character is written as    *)
(* itself when it is printable ASCII (but "U+0060"), "\n", "\t" or one of  *)
(*     € £ é Å å ß Ω ² ½                                                   *)
(* and by its code point otherwise: "U+000D" is the carriage return,       *)
(* "U+0663" the Arabic-Indic digit three (Chr gives the name of a code     *)
(* point).  The classes \s, \d and \w are Python's whole classes.          *)
(*                                                                         *)
(* An optional value (a Python value that may be None) is a sequence of    *)
(* length 0 (None) or 1 (the value).                                       *)
(*                                                                         *)
(* A float is a record [kind, neg, mant, exp, low] that names one double:  *)
(*   "finite"  (-1)^neg * mant * 10^exp, the double nearest to this        *)
(*             decimal; mant has at most nine digits and no trailing       *)
(*             zero, and the value is 0 or in [1e-307, 1e308);             *)
(*   "binary"  (-1)^neg * (mant * 2^26 + low) * 2^exp, a double that no    *)
(*             decimal of the first kind rounds to;                        *)
(*   "inf", "nan".                                                         *)
(* Decimals of the first kind round to distinct doubles (a double keeps    *)
(* fifteen decimal digits), so two doubles are the same double exactly     *)
(* when their records are equal.                                           *)
(***************************************************************************)
EXTENDS Integers, Sequences, FiniteSets, TLC

None == <<>>
Some(v) == <<v>>

(***************************************************************************)
(* Characters and the str methods the code uses.                           *)
(***************************************************************************)
\* The characters str.isdecimal() holds for, which are those \d matches and
\* float() reads as digits: a row for each script, the digits 0 to 9 in order.
DecimalDigits ==
  <<
    <<"0", "1", "2", "3", "4", "5", "6", "7", "8", "9">>,
    <<"U+0660", "U+0661", "U+0662", "U+0663", "U+0664", "U+0665", "U+0666", "U+0667", "U+0668", "U+0669">>,
    <<"U+06F0", "U+06F1", "U+06F2", "U+06F3", "U+06F4", "U+06F5", "U+06F6", "U+06F7", "U+06F8", "U+06F9">>,
    <<"U+07C0", "U+07C1", "U+07C2", "U+07C3", "U+07C4", "U+07C5", "U+07C6", "U+07C7", "U+07C8", "U+07C9">>,
    <<"U+0966", "U+0967", "U+0968", "U+0969", "U+096A", "U+096B", "U+096C", "U+096D", "U+096E", "U+096F">>,
    <<"U+09E6", "U+09E7", "U+09E8", "U+09E9", "U+09EA", "U+09EB", "U+09EC", "U+09ED", "U+09EE", "U+09EF">>,
    <<"U+0A66", "U+0A67", "U+0A68", "U+0A69", "U+0A6A", "U+0A6B", "U+0A6C", "U+0A6D", "U+0A6E", "U+0A6F">>,
    <<"U+0AE6", "U+0AE7", "U+0AE8", "U+0AE9", "U+0AEA", "U+0AEB", "U+0AEC", "U+0AED", "U+0AEE", "U+0AEF">>,
    <<"U+0B66", "U+0B67", "U+0B68", "U+0B69", "U+0B6A", "U+0B6B", "U+0B6C", "U+0B6D", "U+0B6E", "U+0B6F">>,
    <<"U+0BE6", "U+0BE7", "U+0BE8", "U+0BE9", "U+0BEA", "U+0BEB", "U+0BEC", "U+0BED", "U+0BEE", "U+0BEF">>,
    <<"U+0C66", "U+0C67", "U+0C68", "U+0C69", "U+0C6A", "U+0C6B", "U+0C6C", "U+0C6D", "U+0C6E", "U+0C6F">>,
    <<"U+0CE6", "U+0CE7", "U+0CE8", "U+0CE9", "U+0CEA", "U+0CEB", "U+0CEC", "U+0CED", "U+0CEE", "U+0CEF">>,
    <<"U+0D66", "U+0D67", "U+0D68", "U+0D69", "U+0D6A", "U+0D6B", "U+0D6C", "U+0D6D", "U+0D6E", "U+0D6F">>,
    <<"U+0DE6", "U+0DE7", "U+0DE8", "U+0DE9", "U+0DEA", "U+0DEB", "U+0DEC", "U+0DED", "U+0DEE", "U+0DEF">>,
    <<"U+0E50", "U+0E51", "U+0E52", "U+0E53", "U+0E54", "U+0E55", "U+0E56", "U+0E57", "U+0E58", "U+0E59">>,
    <<"U+0ED0", "U+0ED1", "U+0ED2", "U+0ED3", "U+0ED4", "U+0ED5", "U+0ED6", "U+0ED7", "U+0ED8", "U+0ED9">>,
    <<"U+0F20", "U+0F21", "U+0F22", "U+0F23", "U+0F24", "U+0F25", "U+0F26", "U+0F27", "U+0F28", "U+0F29">>,
    <<"U+1040", "U+1041", "U+1042", "U+1043", "U+1044", "U+1045", "U+1046", "U+1047", "U+1048", "U+1049">>,
    <<"U+1090", "U+1091", "U+1092", "U+1093", "U+1094", "U+1095", "U+1096", "U+1097", "U+1098", "U+1099">>,
    <<"U+17E0", "U+17E1", "U+17E2", "U+17E3", "U+17E4", "U+17E5", "U+17E6", "U+17E7", "U+17E8", "U+17E9">>,
    <<"U+1810", "U+1811", "U+1812", "U+1813", "U+1814", "U+1815", "U+1816", "U+1817", "U+1818", "U+1819">>,
    <<"U+1946", "U+1947", "U+1948", "U+1949", "U+194A", "U+194B", "U+194C", "U+194D", "U+194E", "U+194F">>,
    <<"U+19D0", "U+19D1", "U+19D2", "U+19D3", "U+19D4", "U+19D5", "U+19D6", "U+19D7", "U+19D8", "U+19D9">>,
    <<"U+1A80", "U+1A81", "U+1A82", "U+1A83", "U+1A84", "U+1A85", "U+1A86", "U+1A87", "U+1A88", "U+1A89">>,
    <<"U+1A90", "U+1A91", "U+1A92", "U+1A93", "U+1A94", "U+1A95", "U+1A96", "U+1A97", "U+1A98", "U+1A99">>,
    <<"U+1B50", "U+1B51", "U+1B52", "U+1B53", "U+1B54", "U+1B55", "U+1B56", "U+1B57", "U+1B58", "U+1B59">>,
    <<"U+1BB0", "U+1BB1", "U+1BB2", "U+1BB3", "U+1BB4", "U+1BB5", "U+1BB6", "U+1BB7", "U+1BB8", "U+1BB9">>,
    <<"U+1C40", "U+1C41", "U+1C42", "U+1C43", "U+1C44", "U+1C45", "U+1C46", "U+1C47", "U+1C48", "U+1C49">>,
    <<"U+1C50", "U+1C51", "U+1C52", "U+1C53", "U+1C54", "U+1C55", "U+1C56", "U+1C57", "U+1C58", "U+1C59">>,
    <<"U+A620", "U+A621", "U+A622", "U+A623", "U+A624", "U+A625", "U+A626", "U+A627", "U+A628", "U+A629">>,
    <<"U+A8D0", "U+A8D1", "U+A8D2", "U+A8D3", "U+A8D4", "U+A8D5", "U+A8D6", "U+A8D7", "U+A8D8", "U+A8D9">>,
    <<"U+A900", "U+A901", "U+A902", "U+A903", "U+A904", "U+A905", "U+A906", "U+A907", "U+A908", "U+A909">>,
    <<"U+A9D0", "U+A9D1", "U+A9D2", "U+A9D3", "U+A9D4", "U+A9D5", "U+A9D6", "U+A9D7", "U+A9D8", "U+A9D9">>,
    <<"U+A9F0", "U+A9F1", "U+A9F2", "U+A9F3", "U+A9F4", "U+A9F5", "U+A9F6", "U+A9F7", "U+A9F8", "U+A9F9">>,
    <<"U+AA50", "U+AA51", "U+AA52", "U+AA53", "U+AA54", "U+AA55", "U+AA56", "U+AA57", "U+AA58", "U+AA59">>,
    <<"U+ABF0", "U+ABF1", "U+ABF2", "U+ABF3", "U+ABF4", "U+ABF5", "U+ABF6", "U+ABF7", "U+ABF8", "U+ABF9">>,
    <<"U+FF10", "U+FF11", "U+FF12", "U+FF13", "U+FF14", "U+FF15", "U+FF16", "U+FF17", "U+FF18", "U+FF19">>,
    <<"U+104A0", "U+104A1", "U+104A2", "U+104A3", "U+104A4", "U+104A5", "U+104A6", "U+104A7", "U+104A8", "U+104A9">>,
    <<"U+10D30", "U+10D31", "U+10D32", "U+10D33", "U+10D34", "U+10D35", "U+10D36", "U+10D37", "U+10D38", "U+10D39">>,
    <<"U+11066", "U+11067", "U+11068", "U+11069", "U+1106A", "U+1106B", "U+1106C", "U+1106D", "U+1106E", "U+1106F">>,
    <<"U+110F0", "U+110F1", "U+110F2", "U+110F3", "U+110F4", "U+110F5", "U+110F6", "U+110F7", "U+110F8", "U+110F9">>,
    <<"U+11136", "U+11137", "U+11138", "U+11139", "U+1113A", "U+1113B", "U+1113C", "U+1113D", "U+1113E", "U+1113F">>,
    <<"U+111D0", "U+111D1", "U+111D2", "U+111D3", "U+111D4", "U+111D5", "U+111D6", "U+111D7", "U+111D8", "U+111D9">>,
    <<"U+112F0", "U+112F1", "U+112F2", "U+112F3", "U+112F4", "U+112F5", "U+112F6", "U+112F7", "U+112F8", "U+112F9">>,
    <<"U+11450", "U+11451", "U+11452", "U+11453", "U+11454", "U+11455", "U+11456", "U+11457", "U+11458", "U+11459">>,
    <<"U+114D0", "U+114D1", "U+114D2", "U+114D3", "U+114D4", "U+114D5", "U+114D6", "U+114D7", "U+114D8", "U+114D9">>,
    <<"U+11650", "U+11651", "U+11652", "U+11653", "U+11654", "U+11655", "U+11656", "U+11657", "U+11658", "U+11659">>,
    <<"U+116C0", "U+116C1", "U+116C2", "U+116C3", "U+116C4", "U+116C5", "U+116C6", "U+116C7", "U+116C8", "U+116C9">>,
    <<"U+11730", "U+11731", "U+11732", "U+11733", "U+11734", "U+11735", "U+11736", "U+11737", "U+11738", "U+11739">>,
    <<"U+118E0", "U+118E1", "U+118E2", "U+118E3", "U+118E4", "U+118E5", "U+118E6", "U+118E7", "U+118E8", "U+118E9">>,
    <<"U+11950", "U+11951", "U+11952", "U+11953", "U+11954", "U+11955", "U+11956", "U+11957", "U+11958", "U+11959">>,
    <<"U+11C50", "U+11C51", "U+11C52", "U+11C53", "U+11C54", "U+11C55", "U+11C56", "U+11C57", "U+11C58", "U+11C59">>,
    <<"U+11D50", "U+11D51", "U+11D52", "U+11D53", "U+11D54", "U+11D55", "U+11D56", "U+11D57", "U+11D58", "U+11D59">>,
    <<"U+11DA0", "U+11DA1", "U+11DA2", "U+11DA3", "U+11DA4", "U+11DA5", "U+11DA6", "U+11DA7", "U+11DA8", "U+11DA9">>,
    <<"U+16A60", "U+16A61", "U+16A62", "U+16A63", "U+16A64", "U+16A65", "U+16A66", "U+16A67", "U+16A68", "U+16A69">>,
    <<"U+16AC0", "U+16AC1", "U+16AC2", "U+16AC3", "U+16AC4", "U+16AC5", "U+16AC6", "U+16AC7", "U+16AC8", "U+16AC9">>,
    <<"U+16B50", "U+16B51", "U+16B52", "U+16B53", "U+16B54", "U+16B55", "U+16B56", "U+16B57", "U+16B58", "U+16B59">>,
    <<"U+1D7CE", "U+1D7CF", "U+1D7D0", "U+1D7D1", "U+1D7D2", "U+1D7D3", "U+1D7D4", "U+1D7D5", "U+1D7D6", "U+1D7D7">>,
    <<"U+1D7D8", "U+1D7D9", "U+1D7DA", "U+1D7DB", "U+1D7DC", "U+1D7DD", "U+1D7DE", "U+1D7DF", "U+1D7E0", "U+1D7E1">>,
    <<"U+1D7E2", "U+1D7E3", "U+1D7E4", "U+1D7E5", "U+1D7E6", "U+1D7E7", "U+1D7E8", "U+1D7E9", "U+1D7EA", "U+1D7EB">>,
    <<"U+1D7EC", "U+1D7ED", "U+1D7EE", "U+1D7EF", "U+1D7F0", "U+1D7F1", "U+1D7F2", "U+1D7F3", "U+1D7F4", "U+1D7F5">>,
    <<"U+1D7F6", "U+1D7F7", "U+1D7F8", "U+1D7F9", "U+1D7FA", "U+1D7FB", "U+1D7FC", "U+1D7FD", "U+1D7FE", "U+1D7FF">>,
    <<"U+1E140", "U+1E141", "U+1E142", "U+1E143", "U+1E144", "U+1E145", "U+1E146", "U+1E147", "U+1E148", "U+1E149">>,
    <<"U+1E2F0", "U+1E2F1", "U+1E2F2", "U+1E2F3", "U+1E2F4", "U+1E2F5", "U+1E2F6", "U+1E2F7", "U+1E2F8", "U+1E2F9">>,
    <<"U+1E950", "U+1E951", "U+1E952", "U+1E953", "U+1E954", "U+1E955", "U+1E956", "U+1E957", "U+1E958", "U+1E959">>,
    <<"U+1FBF0", "U+1FBF1", "U+1FBF2", "U+1FBF3", "U+1FBF4", "U+1FBF5", "U+1FBF6", "U+1FBF7", "U+1FBF8", "U+1FBF9">>
  >>

Digits == UNION {{DecimalDigits[r][i] : i \in 1..10} : r \in 1..Len(DecimalDigits)}

AsciiDigits == {DecimalDigits[1][i] : i \in 1..10}

\* The value of a decimal digit of any script.
DigitVal(c) ==
  CHOOSE v \in 0..9 : \E r \in 1..Len(DecimalDigits) : DecimalDigits[r][v + 1] = c

UpperLetters ==
  <<"A", "B", "C", "D", "E", "F", "G", "H", "I", "J", "K", "L", "M",
    "N", "O", "P", "Q", "R", "S", "T", "U", "V", "W", "X", "Y", "Z">>

LowerLetters ==
  <<"a", "b", "c", "d", "e", "f", "g", "h", "i", "j", "k", "l", "m",
    "n", "o", "p", "q", "r", "s", "t", "u", "v", "w", "x", "y", "z">>

\* The printable ASCII characters, from the space (code point 32) on.  (A
\* TLA+ string cannot hold the grave accent: it goes by its code point.)
AsciiPrintable ==
  <<" ", "!", "\"", "#", "$", "%", "&", "'", "(", ")", "*", "+", ",", "-", ".", "/",
    "0", "1", "2", "3", "4", "5", "6", "7", "8", "9", ":", ";", "<", "=", ">", "?",
    "@", "A", "B", "C", "D", "E", "F", "G", "H", "I", "J", "K", "L", "M", "N", "O",
    "P", "Q", "R", "S", "T", "U", "V", "W", "X", "Y", "Z", "[", "\\", "]", "^", "_",
    "U+0060", "a", "b", "c", "d", "e", "f", "g", "h", "i", "j", "k", "l", "m", "n", "o",
    "p", "q", "r", "s", "t", "u", "v", "w", "x", "y", "z", "{", "|", "}", "~">>

\* The other characters written as themselves, with their code points.
NamedChars ==
  <<<<163, "£">>, <<178, "²">>, <<189, "½">>, <<197, "Å">>, <<223, "ß">>, <<229, "å">>, <<233, "é">>, <<937, "Ω">>, <<8364, "€">>>>

HexDigits ==
  <<"0", "1", "2", "3", "4", "5", "6", "7", "8", "9", "A", "B", "C", "D", "E", "F">>

\* n in hexadecimal, with at least `width` digits.
RECURSIVE Hex(_, _)
Hex(n, width) ==
  IF n = 0 /\ width <= 0 THEN ""
  ELSE Hex(n \div 16, width - 1) \o HexDigits[(n % 16) + 1]

\* chr(n): the character of code point n.
Chr(n) ==
  IF n >= 32 /\ n <= 126 THEN AsciiPrintable[n - 31]
  ELSE IF n = 9 THEN "\t"
  ELSE IF n = 10 THEN "\n"
  ELSE IF \E k \in 1..Len(NamedChars) : NamedChars[k][1] = n
  THEN NamedChars[CHOOSE k \in 1..Len(NamedChars) : NamedChars[k][1] = n][2]
  ELSE "U+" \o Hex(n, 4)

\* The code points of the characters \w matches, as ranges <<first, last>>
\* in order: those str.isalnum() holds for (the letters and the numerics of
\* every script), and the underscore.
WordRanges ==
  <<
    <<48, 57>>, <<65, 90>>, <<95, 95>>, <<97, 122>>, <<170, 170>>, <<178, 179>>,
    <<181, 181>>, <<185, 186>>, <<188, 190>>, <<192, 214>>, <<216, 246>>, <<248, 705>>,
    <<710, 721>>, <<736, 740>>, <<748, 748>>, <<750, 750>>, <<880, 884>>, <<886, 887>>,
    <<890, 893>>, <<895, 895>>, <<902, 902>>, <<904, 906>>, <<908, 908>>, <<910, 929>>,
    <<931, 1013>>, <<1015, 1153>>, <<1162, 1327>>, <<1329, 1366>>, <<1369, 1369>>, <<1376, 1416>>,
    <<1488, 1514>>, <<1519, 1522>>, <<1568, 1610>>, <<1632, 1641>>, <<1646, 1647>>, <<1649, 1747>>,
    <<1749, 1749>>, <<1765, 1766>>, <<1774, 1788>>, <<1791, 1791>>, <<1808, 1808>>, <<1810, 1839>>,
    <<1869, 1957>>, <<1969, 1969>>, <<1984, 2026>>, <<2036, 2037>>, <<2042, 2042>>, <<2048, 2069>>,
    <<2074, 2074>>, <<2084, 2084>>, <<2088, 2088>>, <<2112, 2136>>, <<2144, 2154>>, <<2160, 2183>>,
    <<2185, 2190>>, <<2208, 2249>>, <<2308, 2361>>, <<2365, 2365>>, <<2384, 2384>>, <<2392, 2401>>,
    <<2406, 2415>>, <<2417, 2432>>, <<2437, 2444>>, <<2447, 2448>>, <<2451, 2472>>, <<2474, 2480>>,
    <<2482, 2482>>, <<2486, 2489>>, <<2493, 2493>>, <<2510, 2510>>, <<2524, 2525>>, <<2527, 2529>>,
    <<2534, 2545>>, <<2548, 2553>>, <<2556, 2556>>, <<2565, 2570>>, <<2575, 2576>>, <<2579, 2600>>,
    <<2602, 2608>>, <<2610, 2611>>, <<2613, 2614>>, <<2616, 2617>>, <<2649, 2652>>, <<2654, 2654>>,
    <<2662, 2671>>, <<2674, 2676>>, <<2693, 2701>>, <<2703, 2705>>, <<2707, 2728>>, <<2730, 2736>>,
    <<2738, 2739>>, <<2741, 2745>>, <<2749, 2749>>, <<2768, 2768>>, <<2784, 2785>>, <<2790, 2799>>,
    <<2809, 2809>>, <<2821, 2828>>, <<2831, 2832>>, <<2835, 2856>>, <<2858, 2864>>, <<2866, 2867>>,
    <<2869, 2873>>, <<2877, 2877>>, <<2908, 2909>>, <<2911, 2913>>, <<2918, 2927>>, <<2929, 2935>>,
    <<2947, 2947>>, <<2949, 2954>>, <<2958, 2960>>, <<2962, 2965>>, <<2969, 2970>>, <<2972, 2972>>,
    <<2974, 2975>>, <<2979, 2980>>, <<2984, 2986>>, <<2990, 3001>>, <<3024, 3024>>, <<3046, 3058>>,
    <<3077, 3084>>, <<3086, 3088>>, <<3090, 3112>>, <<3114, 3129>>, <<3133, 3133>>, <<3160, 3162>>,
    <<3165, 3165>>, <<3168, 3169>>, <<3174, 3183>>, <<3192, 3198>>, <<3200, 3200>>, <<3205, 3212>>,
    <<3214, 3216>>, <<3218, 3240>>, <<3242, 3251>>, <<3253, 3257>>, <<3261, 3261>>, <<3293, 3294>>,
    <<3296, 3297>>, <<3302, 3311>>, <<3313, 3314>>, <<3332, 3340>>, <<3342, 3344>>, <<3346, 3386>>,
    <<3389, 3389>>, <<3406, 3406>>, <<3412, 3414>>, <<3416, 3425>>, <<3430, 3448>>, <<3450, 3455>>,
    <<3461, 3478>>, <<3482, 3505>>, <<3507, 3515>>, <<3517, 3517>>, <<3520, 3526>>, <<3558, 3567>>,
    <<3585, 3632>>, <<3634, 3635>>, <<3648, 3654>>, <<3664, 3673>>, <<3713, 3714>>, <<3716, 3716>>,
    <<3718, 3722>>, <<3724, 3747>>, <<3749, 3749>>, <<3751, 3760>>, <<3762, 3763>>, <<3773, 3773>>,
    <<3776, 3780>>, <<3782, 3782>>, <<3792, 3801>>, <<3804, 3807>>, <<3840, 3840>>, <<3872, 3891>>,
    <<3904, 3911>>, <<3913, 3948>>, <<3976, 3980>>, <<4096, 4138>>, <<4159, 4169>>, <<4176, 4181>>,
    <<4186, 4189>>, <<4193, 4193>>, <<4197, 4198>>, <<4206, 4208>>, <<4213, 4225>>, <<4238, 4238>>,
    <<4240, 4249>>, <<4256, 4293>>, <<4295, 4295>>, <<4301, 4301>>, <<4304, 4346>>, <<4348, 4680>>,
    <<4682, 4685>>, <<4688, 4694>>, <<4696, 4696>>, <<4698, 4701>>, <<4704, 4744>>, <<4746, 4749>>,
    <<4752, 4784>>, <<4786, 4789>>, <<4792, 4798>>, <<4800, 4800>>, <<4802, 4805>>, <<4808, 4822>>,
    <<4824, 4880>>, <<4882, 4885>>, <<4888, 4954>>, <<4969, 4988>>, <<4992, 5007>>, <<5024, 5109>>,
    <<5112, 5117>>, <<5121, 5740>>, <<5743, 5759>>, <<5761, 5786>>, <<5792, 5866>>, <<5870, 5880>>,
    <<5888, 5905>>, <<5919, 5937>>, <<5952, 5969>>, <<5984, 5996>>, <<5998, 6000>>, <<6016, 6067>>,
    <<6103, 6103>>, <<6108, 6108>>, <<6112, 6121>>, <<6128, 6137>>, <<6160, 6169>>, <<6176, 6264>>,
    <<6272, 6276>>, <<6279, 6312>>, <<6314, 6314>>, <<6320, 6389>>, <<6400, 6430>>, <<6470, 6509>>,
    <<6512, 6516>>, <<6528, 6571>>, <<6576, 6601>>, <<6608, 6618>>, <<6656, 6678>>, <<6688, 6740>>,
    <<6784, 6793>>, <<6800, 6809>>, <<6823, 6823>>, <<6917, 6963>>, <<6981, 6988>>, <<6992, 7001>>,
    <<7043, 7072>>, <<7086, 7141>>, <<7168, 7203>>, <<7232, 7241>>, <<7245, 7293>>, <<7296, 7304>>,
    <<7312, 7354>>, <<7357, 7359>>, <<7401, 7404>>, <<7406, 7411>>, <<7413, 7414>>, <<7418, 7418>>,
    <<7424, 7615>>, <<7680, 7957>>, <<7960, 7965>>, <<7968, 8005>>, <<8008, 8013>>, <<8016, 8023>>,
    <<8025, 8025>>, <<8027, 8027>>, <<8029, 8029>>, <<8031, 8061>>, <<8064, 8116>>, <<8118, 8124>>,
    <<8126, 8126>>, <<8130, 8132>>, <<8134, 8140>>, <<8144, 8147>>, <<8150, 8155>>, <<8160, 8172>>,
    <<8178, 8180>>, <<8182, 8188>>, <<8304, 8305>>, <<8308, 8313>>, <<8319, 8329>>, <<8336, 8348>>,
    <<8450, 8450>>, <<8455, 8455>>, <<8458, 8467>>, <<8469, 8469>>, <<8473, 8477>>, <<8484, 8484>>,
    <<8486, 8486>>, <<8488, 8488>>, <<8490, 8493>>, <<8495, 8505>>, <<8508, 8511>>, <<8517, 8521>>,
    <<8526, 8526>>, <<8528, 8585>>, <<9312, 9371>>, <<9450, 9471>>, <<10102, 10131>>, <<11264, 11492>>,
    <<11499, 11502>>, <<11506, 11507>>, <<11517, 11517>>, <<11520, 11557>>, <<11559, 11559>>, <<11565, 11565>>,
    <<11568, 11623>>, <<11631, 11631>>, <<11648, 11670>>, <<11680, 11686>>, <<11688, 11694>>, <<11696, 11702>>,
    <<11704, 11710>>, <<11712, 11718>>, <<11720, 11726>>, <<11728, 11734>>, <<11736, 11742>>, <<11823, 11823>>,
    <<12293, 12295>>, <<12321, 12329>>, <<12337, 12341>>, <<12344, 12348>>, <<12353, 12438>>, <<12445, 12447>>,
    <<12449, 12538>>, <<12540, 12543>>, <<12549, 12591>>, <<12593, 12686>>, <<12690, 12693>>, <<12704, 12735>>,
    <<12784, 12799>>, <<12832, 12841>>, <<12872, 12879>>, <<12881, 12895>>, <<12928, 12937>>, <<12977, 12991>>,
    <<13312, 19903>>, <<19968, 42124>>, <<42192, 42237>>, <<42240, 42508>>, <<42512, 42539>>, <<42560, 42606>>,
    <<42623, 42653>>, <<42656, 42735>>, <<42775, 42783>>, <<42786, 42888>>, <<42891, 42954>>, <<42960, 42961>>,
    <<42963, 42963>>, <<42965, 42969>>, <<42994, 43009>>, <<43011, 43013>>, <<43015, 43018>>, <<43020, 43042>>,
    <<43056, 43061>>, <<43072, 43123>>, <<43138, 43187>>, <<43216, 43225>>, <<43250, 43255>>, <<43259, 43259>>,
    <<43261, 43262>>, <<43264, 43301>>, <<43312, 43334>>, <<43360, 43388>>, <<43396, 43442>>, <<43471, 43481>>,
    <<43488, 43492>>, <<43494, 43518>>, <<43520, 43560>>, <<43584, 43586>>, <<43588, 43595>>, <<43600, 43609>>,
    <<43616, 43638>>, <<43642, 43642>>, <<43646, 43695>>, <<43697, 43697>>, <<43701, 43702>>, <<43705, 43709>>,
    <<43712, 43712>>, <<43714, 43714>>, <<43739, 43741>>, <<43744, 43754>>, <<43762, 43764>>, <<43777, 43782>>,
    <<43785, 43790>>, <<43793, 43798>>, <<43808, 43814>>, <<43816, 43822>>, <<43824, 43866>>, <<43868, 43881>>,
    <<43888, 44002>>, <<44016, 44025>>, <<44032, 55203>>, <<55216, 55238>>, <<55243, 55291>>, <<63744, 64109>>,
    <<64112, 64217>>, <<64256, 64262>>, <<64275, 64279>>, <<64285, 64285>>, <<64287, 64296>>, <<64298, 64310>>,
    <<64312, 64316>>, <<64318, 64318>>, <<64320, 64321>>, <<64323, 64324>>, <<64326, 64433>>, <<64467, 64829>>,
    <<64848, 64911>>, <<64914, 64967>>, <<65008, 65019>>, <<65136, 65140>>, <<65142, 65276>>, <<65296, 65305>>,
    <<65313, 65338>>, <<65345, 65370>>, <<65382, 65470>>, <<65474, 65479>>, <<65482, 65487>>, <<65490, 65495>>,
    <<65498, 65500>>, <<65536, 65547>>, <<65549, 65574>>, <<65576, 65594>>, <<65596, 65597>>, <<65599, 65613>>,
    <<65616, 65629>>, <<65664, 65786>>, <<65799, 65843>>, <<65856, 65912>>, <<65930, 65931>>, <<66176, 66204>>,
    <<66208, 66256>>, <<66273, 66299>>, <<66304, 66339>>, <<66349, 66378>>, <<66384, 66421>>, <<66432, 66461>>,
    <<66464, 66499>>, <<66504, 66511>>, <<66513, 66517>>, <<66560, 66717>>, <<66720, 66729>>, <<66736, 66771>>,
    <<66776, 66811>>, <<66816, 66855>>, <<66864, 66915>>, <<66928, 66938>>, <<66940, 66954>>, <<66956, 66962>>,
    <<66964, 66965>>, <<66967, 66977>>, <<66979, 66993>>, <<66995, 67001>>, <<67003, 67004>>, <<67072, 67382>>,
    <<67392, 67413>>, <<67424, 67431>>, <<67456, 67461>>, <<67463, 67504>>, <<67506, 67514>>, <<67584, 67589>>,
    <<67592, 67592>>, <<67594, 67637>>, <<67639, 67640>>, <<67644, 67644>>, <<67647, 67669>>, <<67672, 67702>>,
    <<67705, 67742>>, <<67751, 67759>>, <<67808, 67826>>, <<67828, 67829>>, <<67835, 67867>>, <<67872, 67897>>,
    <<67968, 68023>>, <<68028, 68047>>, <<68050, 68096>>, <<68112, 68115>>, <<68117, 68119>>, <<68121, 68149>>,
    <<68160, 68168>>, <<68192, 68222>>, <<68224, 68255>>, <<68288, 68295>>, <<68297, 68324>>, <<68331, 68335>>,
    <<68352, 68405>>, <<68416, 68437>>, <<68440, 68466>>, <<68472, 68497>>, <<68521, 68527>>, <<68608, 68680>>,
    <<68736, 68786>>, <<68800, 68850>>, <<68858, 68899>>, <<68912, 68921>>, <<69216, 69246>>, <<69248, 69289>>,
    <<69296, 69297>>, <<69376, 69415>>, <<69424, 69445>>, <<69457, 69460>>, <<69488, 69505>>, <<69552, 69579>>,
    <<69600, 69622>>, <<69635, 69687>>, <<69714, 69743>>, <<69745, 69746>>, <<69749, 69749>>, <<69763, 69807>>,
    <<69840, 69864>>, <<69872, 69881>>, <<69891, 69926>>, <<69942, 69951>>, <<69956, 69956>>, <<69959, 69959>>,
    <<69968, 70002>>, <<70006, 70006>>, <<70019, 70066>>, <<70081, 70084>>, <<70096, 70106>>, <<70108, 70108>>,
    <<70113, 70132>>, <<70144, 70161>>, <<70163, 70187>>, <<70272, 70278>>, <<70280, 70280>>, <<70282, 70285>>,
    <<70287, 70301>>, <<70303, 70312>>, <<70320, 70366>>, <<70384, 70393>>, <<70405, 70412>>, <<70415, 70416>>,
    <<70419, 70440>>, <<70442, 70448>>, <<70450, 70451>>, <<70453, 70457>>, <<70461, 70461>>, <<70480, 70480>>,
    <<70493, 70497>>, <<70656, 70708>>, <<70727, 70730>>, <<70736, 70745>>, <<70751, 70753>>, <<70784, 70831>>,
    <<70852, 70853>>, <<70855, 70855>>, <<70864, 70873>>, <<71040, 71086>>, <<71128, 71131>>, <<71168, 71215>>,
    <<71236, 71236>>, <<71248, 71257>>, <<71296, 71338>>, <<71352, 71352>>, <<71360, 71369>>, <<71424, 71450>>,
    <<71472, 71483>>, <<71488, 71494>>, <<71680, 71723>>, <<71840, 71922>>, <<71935, 71942>>, <<71945, 71945>>,
    <<71948, 71955>>, <<71957, 71958>>, <<71960, 71983>>, <<71999, 71999>>, <<72001, 72001>>, <<72016, 72025>>,
    <<72096, 72103>>, <<72106, 72144>>, <<72161, 72161>>, <<72163, 72163>>, <<72192, 72192>>, <<72203, 72242>>,
    <<72250, 72250>>, <<72272, 72272>>, <<72284, 72329>>, <<72349, 72349>>, <<72368, 72440>>, <<72704, 72712>>,
    <<72714, 72750>>, <<72768, 72768>>, <<72784, 72812>>, <<72818, 72847>>, <<72960, 72966>>, <<72968, 72969>>,
    <<72971, 73008>>, <<73030, 73030>>, <<73040, 73049>>, <<73056, 73061>>, <<73063, 73064>>, <<73066, 73097>>,
    <<73112, 73112>>, <<73120, 73129>>, <<73440, 73458>>, <<73648, 73648>>, <<73664, 73684>>, <<73728, 74649>>,
    <<74752, 74862>>, <<74880, 75075>>, <<77712, 77808>>, <<77824, 78894>>, <<82944, 83526>>, <<92160, 92728>>,
    <<92736, 92766>>, <<92768, 92777>>, <<92784, 92862>>, <<92864, 92873>>, <<92880, 92909>>, <<92928, 92975>>,
    <<92992, 92995>>, <<93008, 93017>>, <<93019, 93025>>, <<93027, 93047>>, <<93053, 93071>>, <<93760, 93846>>,
    <<93952, 94026>>, <<94032, 94032>>, <<94099, 94111>>, <<94176, 94177>>, <<94179, 94179>>, <<94208, 100343>>,
    <<100352, 101589>>, <<101632, 101640>>, <<110576, 110579>>, <<110581, 110587>>, <<110589, 110590>>, <<110592, 110882>>,
    <<110928, 110930>>, <<110948, 110951>>, <<110960, 111355>>, <<113664, 113770>>, <<113776, 113788>>, <<113792, 113800>>,
    <<113808, 113817>>, <<119520, 119539>>, <<119648, 119672>>, <<119808, 119892>>, <<119894, 119964>>, <<119966, 119967>>,
    <<119970, 119970>>, <<119973, 119974>>, <<119977, 119980>>, <<119982, 119993>>, <<119995, 119995>>, <<119997, 120003>>,
    <<120005, 120069>>, <<120071, 120074>>, <<120077, 120084>>, <<120086, 120092>>, <<120094, 120121>>, <<120123, 120126>>,
    <<120128, 120132>>, <<120134, 120134>>, <<120138, 120144>>, <<120146, 120485>>, <<120488, 120512>>, <<120514, 120538>>,
    <<120540, 120570>>, <<120572, 120596>>, <<120598, 120628>>, <<120630, 120654>>, <<120656, 120686>>, <<120688, 120712>>,
    <<120714, 120744>>, <<120746, 120770>>, <<120772, 120779>>, <<120782, 120831>>, <<122624, 122654>>, <<123136, 123180>>,
    <<123191, 123197>>, <<123200, 123209>>, <<123214, 123214>>, <<123536, 123565>>, <<123584, 123627>>, <<123632, 123641>>,
    <<124896, 124902>>, <<124904, 124907>>, <<124909, 124910>>, <<124912, 124926>>, <<124928, 125124>>, <<125127, 125135>>,
    <<125184, 125251>>, <<125259, 125259>>, <<125264, 125273>>, <<126065, 126123>>, <<126125, 126127>>, <<126129, 126132>>,
    <<126209, 126253>>, <<126255, 126269>>, <<126464, 126467>>, <<126469, 126495>>, <<126497, 126498>>, <<126500, 126500>>,
    <<126503, 126503>>, <<126505, 126514>>, <<126516, 126519>>, <<126521, 126521>>, <<126523, 126523>>, <<126530, 126530>>,
    <<126535, 126535>>, <<126537, 126537>>, <<126539, 126539>>, <<126541, 126543>>, <<126545, 126546>>, <<126548, 126548>>,
    <<126551, 126551>>, <<126553, 126553>>, <<126555, 126555>>, <<126557, 126557>>, <<126559, 126559>>, <<126561, 126562>>,
    <<126564, 126564>>, <<126567, 126570>>, <<126572, 126578>>, <<126580, 126583>>, <<126585, 126588>>, <<126590, 126590>>,
    <<126592, 126601>>, <<126603, 126619>>, <<126625, 126627>>, <<126629, 126633>>, <<126635, 126651>>, <<127232, 127244>>,
    <<130032, 130041>>, <<131072, 173791>>, <<173824, 177976>>, <<177984, 178205>>, <<178208, 183969>>, <<183984, 191456>>,
    <<194560, 195101>>, <<196608, 201546>>
  >>

\* The code points of the ranges from the lo-th to the hi-th, in order.
RECURSIVE CodePointsOf(_, _, _)
CodePointsOf(ranges, lo, hi) ==
  IF lo = hi
  THEN [k \in 1..(ranges[lo][2] - ranges[lo][1] + 1) |-> ranges[lo][1] + k - 1]
  ELSE CodePointsOf(ranges, lo, (lo + hi) \div 2)
         \o CodePointsOf(ranges, (lo + hi) \div 2 + 1, hi)

WordCodePoints == CodePointsOf(WordRanges, 1, Len(WordRanges))

\* The lower case of an ASCII letter; any other character stays.
ToLower(c) ==
  IF \E i \in 1..26 : UpperLetters[i] = c
  THEN LowerLetters[CHOOSE i \in 1..26 : UpperLetters[i] = c]
  ELSE c

\* The ASCII characters str.isspace() holds for.
AsciiWhitespace ==
  {" ", "\t", "\n", "U+000B", "U+000C", "U+000D",
   "U+001C", "U+001D", "U+001E", "U+001F"}

\* The characters \s matches and str.strip() removes: str.isspace().
Whitespace ==
  AsciiWhitespace
  \cup {"U+0085", "U+00A0", "U+1680", "U+2000", "U+2001", "U+2002", "U+2003",
        "U+2004", "U+2005", "U+2006", "U+2007", "U+2008", "U+2009", "U+200A",
        "U+2028", "U+2029", "U+202F", "U+205F", "U+3000"}

\* The position of the first character from i on that is outside `class`,
\* Len(s) + 1 when there is none: where a greedy class* that starts at i ends.
SkipWhile(s, i, class) ==
  IF \E k \in i..Len(s) : s[k] \notin class
  THEN CHOOSE k \in i..Len(s) :
         s[k] \notin class /\ \A j \in i..(k - 1) : s[j] \in class
  ELSE IF i > Len(s) THEN i ELSE Len(s) + 1

\* The position of the first character from i on that is in `stop`.
SkipUntil(s, i, stop) ==
  IF \E k \in i..Len(s) : s[k] \in stop
  THEN CHOOSE k \in i..Len(s) :
         s[k] \in stop /\ \A j \in i..(k - 1) : s[j] \notin stop
  ELSE IF i > Len(s) THEN i ELSE Len(s) + 1

\* A greedy \s* that starts at i.
SkipWhitespace(s, i) == SkipWhile(s, i, Whitespace)

\* s with the leading characters of `class` removed.
LStripOf(s, class) == SubSeq(s, SkipWhile(s, 1, class), Len(s))

\* s with the trailing characters of `class` removed.
RStripOf(s, class) ==
  IF \E k \in 1..Len(s) : s[k] \notin class
  THEN SubSeq(s, 1, CHOOSE k \in 1..Len(s) :
                      s[k] \notin class /\ \A j \in (k + 1)..Len(s) : s[j] \in class)
  ELSE <<>>

LStrip(s) == LStripOf(s, Whitespace)
RStrip(s) == RStripOf(s, Whitespace)

\* str.strip()
StrStrip(s) == RStrip(LStrip(s))

\* c in s
Contains(s, c) == \E i \in 1..Len(s) : s[i] = c

\* s.find(c): the 0-based index of the first c, or -1.
Find(s, c) ==
  IF Contains(s, c)
  THEN (CHOOSE i \in 1..Len(s) : s[i] = c /\ \A j \in 1..(i - 1) : s[j] # c) - 1
  ELSE -1

\* s.replace(c, r) for a one-character c and an r of at most one character
\* (the code replaces by '' and by '.').
Replace(s, c, r) ==
  IF r = <<>>
  THEN SelectSeq(s, LAMBDA x : x # c)
  ELSE SubSeq([i \in 1..Len(s) |-> IF s[i] = c THEN r[1] ELSE s[i]], 1, Len(s))

\* Whether lit occurs in s at (1-based) position i.
StartsWith(s, i, lit) ==
  /\ i + Len(lit) - 1 <= Len(s)
  /\ \A k \in 1..Len(lit) : s[i + k - 1] = lit[k]

(***************************************************************************)
(* clean_amount                                                            *)
(***************************************************************************)
CurrencyCodes == {<<"U", "S", "D">>, <<"E", "U", "R">>, <<"G", "B", "P">>}
CurrencySymbols == {"€", "$", "£"}

\* The length of the match of (?:USD|EUR|GBP|[€$£]) at position i, 0 for none.
CurrencyMarkerLen(s, i) ==
  IF \E c \in CurrencyCodes : StartsWith(s, i, c) THEN 3
  ELSE IF s[i] \in CurrencySymbols THEN 1
  ELSE 0

\* re.sub(r'(?:USD|EUR|GBP|[€$£])\s*', '', s) from position i on: the text up
\* to the leftmost match stays, the match (a marker and the whitespace after
\* it) is dropped, and the substitution goes on after it.
RECURSIVE StripCurrency(_, _)
StripCurrency(s, i) ==
  IF \E m \in i..Len(s) : CurrencyMarkerLen(s, m) > 0
  THEN LET m == CHOOSE m \in i..Len(s) :
                  /\ CurrencyMarkerLen(s, m) > 0
                  /\ \A j \in i..(m - 1) : CurrencyMarkerLen(s, j) = 0
       IN SubSeq(s, i, m - 1)
            \o StripCurrency(s, SkipWhitespace(s, m + CurrencyMarkerLen(s, m)))
  ELSE SubSeq(s, i, Len(s))

\* The Spanish/English separator handling, with the test of line 28 turned
\* round.
NormalizeSeparators_DecimalFirst(s) ==
  IF Contains(s, ",") /\ Contains(s, ".")
  THEN IF Find(s, ".") > Find(s, ",")
       THEN Replace(Replace(s, ".", <<>>), ",", <<".">>)
       ELSE Replace(s, ",", <<>>)
  ELSE IF Contains(s, ",") THEN Replace(s, ",", <<>>)
  ELSE s

\* The Spanish/English separator handling.
NormalizeSeparators(s) ==
  IF Contains(s, ",") /\ Contains(s, ".")
  THEN IF Find(s, ".") < Find(s, ",")
       THEN Replace(Replace(s, ".", <<>>), ",", <<".">>)
       ELSE Replace(s, ",", <<>>)
  ELSE IF Contains(s, ",") THEN Replace(s, ",", <<>>)
  ELSE s

(***************************************************************************)
(* float(str): the outcome is a float record, or ValueError.               *)
(***************************************************************************)
ValueError == [kind |-> "ValueError", neg |-> FALSE, mant |-> 0, exp |-> 0, low |-> 0]
NaN == [kind |-> "nan", neg |-> FALSE, mant |-> 0, exp |-> 0, low |-> 0]
Infinity(neg) == [kind |-> "inf", neg |-> neg, mant |-> 0, exp |-> 0, low |-> 0]

RECURSIVE NormalizeDecimal(_, _)
NormalizeDecimal(m, e) ==
  IF m = 0 THEN <<0, 0>>
  ELSE IF m % 10 = 0 THEN NormalizeDecimal(m \div 10, e + 1)
  ELSE <<m, e>>

\* The double named by the decimal m * 10^e.
Finite(neg, m, e) ==
  LET n == NormalizeDecimal(m, e)
  IN [kind |-> "finite", neg |-> neg, mant |-> n[1], exp |-> n[2], low |-> 0]

\* The double (hi * 2^26 + lo) * 2^b.
Binary(neg, hi, lo, b) ==
  [kind |-> "binary", neg |-> neg, mant |-> hi, exp |-> b, low |-> lo]

\* Natural numbers of any size: Limbs digits base Base, the least significant
\* first.  Every number of one conversion has the same count of digits.
Base == 10000
LimbDigits == 4

Pow10(n) == CASE n = 0 -> 1 [] n = 1 -> 10 [] n = 2 -> 100 [] n = 3 -> 1000

\* The number written by the decimal digits ds (values 0..9, the most
\* significant first) followed by `zeros` zeros, in n limbs.
BigOfDigits(ds, zeros, n) ==
  LET len == Len(ds) + zeros
      \* the digit of weight 10^p
      digit(p) == IF p < zeros \/ p >= len THEN 0 ELSE ds[Len(ds) - (p - zeros)]
  IN SubSeq([j \in 1..n |->
               digit(4 * j - 4) + 10 * digit(4 * j - 3)
                 + 100 * digit(4 * j - 2) + 1000 * digit(4 * j - 1)], 1, n)

\* 2 * a.  A carry never meets a digit it could push over: 2 * a[i] is even.
BigDouble(a) ==
  SubSeq([i \in 1..Len(a) |->
            ((2 * a[i]) % Base) + (IF i > 1 THEN (2 * a[i - 1]) \div Base ELSE 0)],
         1, Len(a))

\* The numbers of the lowest n limbs of a and of b: the first is less.
BigLessBelow(a, b, n) ==
  \E i \in 1..n : a[i] < b[i] /\ \A j \in (i + 1)..n : a[j] = b[j]

\* a < b
BigLess(a, b) == BigLessBelow(a, b, Len(a))

\* a - b, for a >= b: limb i borrows when the limbs below it are less in a.
BigSub(a, b) ==
  SubSeq([i \in 1..Len(a) |->
            (a[i] - b[i] - (IF BigLessBelow(a, b, i - 1) THEN 1 ELSE 0) + Base) % Base],
         1, Len(a))

\* The binary exponents of a double: the value is frac * 2^e with frac in
\* [1/2, 1), e from MinExp (below it the numbers are subnormal: frac is
\* smaller) to MaxExp.
MinExp == -1021
MaxExp == 1024

\* One step that brings num / den towards [1/2, 1) keeping
\* num / den * 2^e: s is <<num, den, e>>.
ScaleStep(s) ==
  IF ~BigLess(s[1], s[2]) THEN <<s[1], BigDouble(s[2]), s[3] + 1>>
  ELSE IF s[3] > MinExp /\ BigLess(BigDouble(s[1]), s[2])
  THEN <<BigDouble(s[1]), s[2], s[3] - 1>>
  ELSE s

\* ScaleStep, 2^k times or until it changes nothing.
RECURSIVE ScaleRepeat(_, _)
ScaleRepeat(k, s) ==
  IF k = 0 \/ ScaleStep(s) = s THEN ScaleStep(s)
  ELSE ScaleRepeat(k - 1, ScaleRepeat(k - 1, s))

\* One more bit of num / den: s is <<rest, hi, lo, bits>>, the quotient so
\* far is hi * 2^26 + lo in its first `bits` bits, of 53; twice is 2 * rest.
BitShift(s, twice, den) ==
  IF BigLess(twice, den)
  THEN IF s[4] < 27
       THEN <<twice, 2 * s[2], s[3], s[4] + 1>>
       ELSE <<twice, s[2], 2 * s[3], s[4] + 1>>
  ELSE IF s[4] < 27
       THEN <<BigSub(twice, den), 2 * s[2] + 1, s[3], s[4] + 1>>
       ELSE <<BigSub(twice, den), s[2], 2 * s[3] + 1, s[4] + 1>>

BitStep(s, den) == IF s[4] = 53 THEN s ELSE BitShift(s, BigDouble(s[1]), den)

\* BitStep, 2^k times or until the 53 bits are there.
RECURSIVE BitRepeat(_, _, _)
BitRepeat(k, s, den) ==
  IF k = 0 \/ s[4] = 53 THEN BitStep(s, den)
  ELSE BitRepeat(k - 1, BitRepeat(k - 1, s, den), den)

TwoTo26 == 67108864
TwoTo27 == 134217728

\* The 53 bits hi * 2^26 + lo of a quotient and its binary exponent e, with
\* one added in the last place: <<hi, lo, b>> for (hi * 2^26 + lo) * 2^b,
\* <<0, 0, 0>> for zero, <<0, 0, 1>> past the largest double.
RoundedUp(hi0, lo1, e) ==
  LET carry == lo1 = TwoTo26
      hi1 == IF carry THEN hi0 + 1 ELSE hi0
      lo == IF carry THEN 0 ELSE lo1
      hi == IF hi1 = TwoTo27 THEN TwoTo26 ELSE hi1
      b == IF hi1 = TwoTo27 THEN e - 52 ELSE e - 53
  IN IF hi = 0 /\ lo = 0 THEN <<0, 0, 0>>
     ELSE IF b + 53 > MaxExp THEN <<0, 0, 1>>
     ELSE <<hi, lo, b>>

\* Round half to even: q is <<rest, hi, lo, 53>>, twice is 2 * rest.
RoundHalfEven(q, twice, den, e) ==
  RoundedUp(q[2],
            IF BigLess(den, twice) \/ (twice = den /\ q[3] % 2 = 1)
            THEN q[3] + 1 ELSE q[3],
            e)

\* The bits of num / den * 2^e for scaled = <<num, den, e>>, rounded.
RoundQuotient(q, scaled) == RoundHalfEven(q, BigDouble(q[1]), scaled[2], scaled[3])

RoundScaled(scaled) ==
  RoundQuotient(BitRepeat(6, <<scaled[1], 0, 0, 0>>, scaled[2]), scaled)

\* The double nearest to sig * 10^e10 (ties to the even one), for decimal
\* digits sig (values, no zero at either end) whose value is between 1e-325
\* and 1e309: <<hi, lo, b>> for (hi * 2^26 + lo) * 2^b, with hi * 2^26 + lo
\* in [2^52, 2^53) or b = -1074; <<0, 0, 0>> for zero; <<0, 0, 1>> for
\* infinity.
RoundToDouble(sig, e10) ==
  LET zeros == IF e10 > 0 THEN e10 ELSE 0
      places == IF e10 < 0 THEN 0 - e10 ELSE 0
      n == (IF Len(sig) + zeros > places THEN Len(sig) + zeros ELSE places + 1)
             \div LimbDigits + 2
  IN RoundScaled(ScaleRepeat(11, <<BigOfDigits(sig, zeros, n),
                                   BigOfDigits(<<1>>, places, n), 0>>))

\* The number that the digit values d write.
RECURSIVE DigitsToInt(_)
DigitsToInt(d) ==
  IF d = <<>> THEN 0
  ELSE DigitsToInt(SubSeq(d, 1, Len(d) - 1)) * 10 + d[Len(d)]

\* The digit values of m.
RECURSIVE IntToDigits(_)
IntToDigits(m) ==
  IF m < 10 THEN <<m>> ELSE Append(IntToDigits(m \div 10), m % 10)

\* The decimals of the first kind of float record: at most nine digits, the
\* value in [1e-307, 1e308).
MaxMantDigits == 9
InDecimalRange(nd, e10) ==
  nd <= MaxMantDigits /\ nd + e10 - 1 >= -307 /\ nd + e10 - 1 <= 307

\* The decimal m * 10^shift is one of the first kind and rounds to r.
Names(m, shift, r) ==
  LET c == NormalizeDecimal(m, shift)
  IN /\ InDecimalRange(Len(IntToDigits(c[1])), c[2])
     /\ RoundToDouble(IntToDigits(c[1]), c[2]) = r

\* The record of the double r: by the decimal that names it, when one of
\* `named` does.
NamedDouble(neg, r, shift, named) ==
  IF r = <<0, 0, 0>> THEN Finite(neg, 0, 0)
  ELSE IF r = <<0, 0, 1>> THEN Infinity(neg)
  ELSE IF named = {} THEN Binary(neg, r[1], r[2], r[3])
  ELSE Finite(neg, CHOOSE m \in named : \A k \in named : m <= k, shift)

\* The record of the double r that sig * 10^e10 rounds to: the candidates
\* for its name are the two nine-digit decimals around the value.
RoundedDouble(neg, r, sig, e10) ==
  LET below == DigitsToInt(SubSeq(sig, 1, MaxMantDigits))
      shift == e10 + Len(sig) - MaxMantDigits
  IN NamedDouble(neg, r, shift,
                 IF Len(sig) > MaxMantDigits
                 THEN {m \in {below, below + 1} : Names(m, shift, r)}
                 ELSE {})

\* The float of sig * 10^e10, sig digit values with no zero at either end.
SignificandToDouble(neg, sig, e10) ==
  IF InDecimalRange(Len(sig), e10) THEN Finite(neg, DigitsToInt(sig), e10)
  ELSE IF Len(sig) + e10 - 1 >= 309 THEN Infinity(neg)
  ELSE IF Len(sig) + e10 - 1 <= -325 THEN Finite(neg, 0, 0)
  ELSE RoundedDouble(neg, RoundToDouble(sig, e10), sig, e10)

\* The float that the decimal ds * 10^dexp gives, ds a sequence of digit
\* values: the correctly rounded double, 0.0 below the smallest double and
\* inf above the largest.
DecimalToDouble(neg, ds, dexp) ==
  IF \A i \in 1..Len(ds) : ds[i] = 0 THEN Finite(neg, 0, 0)
  ELSE
    LET first == CHOOSE i \in 1..Len(ds) : ds[i] # 0 /\ \A j \in 1..(i - 1) : ds[j] = 0
        last == CHOOSE i \in 1..Len(ds) : ds[i] # 0 /\ \A j \in (i + 1)..Len(ds) : ds[j] = 0
    IN SignificandToDouble(neg, SubSeq(ds, first, last), dexp + (Len(ds) - last))

\* A digit part of a float literal: digits, single underscores between them.
ValidDigitPart(d) ==
  /\ d # <<>>
  /\ d[1] \in AsciiDigits
  /\ d[Len(d)] \in AsciiDigits
  /\ \A i \in 1..Len(d) : d[i] \in AsciiDigits \cup {"_"}
  /\ \A i \in 1..(Len(d) - 1) : ~(d[i] = "_" /\ d[i + 1] = "_")

\* The values of the digits of d, the underscores left out.
DigitValues(d) ==
  LET only == SelectSeq(d, LAMBDA c : c \in AsciiDigits)
  IN SubSeq([i \in 1..Len(only) |-> DigitVal(only[i])], 1, Len(only))

\* The exponent that the digit values v write, as float() reads it
\* (CPython's _Py_dg_strtod): the leading zeros apart, an exponent of more
\* than nine digits reads as MAX_ABS_EXP.
MAX_ABS_EXP == 1100000000
ExponentValue(v) ==
  IF Len(LStripOf(v, {0})) > 9 THEN MAX_ABS_EXP
  ELSE DigitsToInt(LStripOf(v, {0}))

\* float() refuses a literal of more than MAX_DIGITS digits, the leading
\* zeros not counted, or of more than MAX_DIGITS digits after the point
\* (_Py_dg_strtod); ipd and fpd are the digit values before and after the
\* point.
MAX_DIGITS == 1000000000
WithinDigitLimits(ipd, fpd) ==
  /\ Len(fpd) <= MAX_DIGITS
  /\ Len(LStripOf(ipd, {0}))
       + (IF LStripOf(ipd, {0}) = <<>> THEN Len(LStripOf(fpd, {0})) ELSE Len(fpd))
       <= MAX_DIGITS

\* The decimal literal b (ASCII, lower-cased, sign removed):
\* [digits][.[digits]][e[sign]digits], with a digit before or after the point.
ParseDecimal(neg, b) ==
  LET ePos == Find(b, "e") + 1
      m == IF ePos = 0 THEN b ELSE SubSeq(b, 1, ePos - 1)
      x == IF ePos = 0 THEN <<>> ELSE SubSeq(b, ePos + 1, Len(b))
      xSigned == x # <<>> /\ x[1] \in {"+", "-"}
      xd == IF xSigned THEN Tail(x) ELSE x
      dot == Find(m, ".") + 1
      ip == IF dot = 0 THEN m ELSE SubSeq(m, 1, dot - 1)
      fp == IF dot = 0 THEN <<>> ELSE SubSeq(m, dot + 1, Len(m))
      valid == /\ ip = <<>> \/ ValidDigitPart(ip)
               /\ fp = <<>> \/ ValidDigitPart(fp)
               /\ ip # <<>> \/ fp # <<>>
               /\ ePos # 0 => ValidDigitPart(xd)
               /\ WithinDigitLimits(DigitValues(ip), DigitValues(fp))
      e == IF ePos = 0 THEN 0
           ELSE (IF xSigned /\ x[1] = "-" THEN -1 ELSE 1)
                  * ExponentValue(DigitValues(xd))
  IN IF valid
     THEN DecimalToDouble(neg, DigitValues(ip \o fp), e - Len(DigitValues(fp)))
     ELSE ValueError

\* The whitespace float() strips from the ends of its ASCII text.
FloatWhitespace == {" ", "\t", "\n", "U+000B", "U+000C", "U+000D"}

\* The ASCII text float() parses: whitespace outside ASCII has become a
\* space and a decimal digit of any script the ASCII digit of its value.
\* (Any other character outside ASCII becomes '?' in the code and stays
\* here; neither is part of a literal.)
FloatText(s) ==
  SubSeq([i \in 1..Len(s) |->
            IF s[i] \in Whitespace \ AsciiWhitespace THEN " "
            ELSE IF s[i] \in Digits THEN DecimalDigits[1][DigitVal(s[i]) + 1]
            ELSE s[i]], 1, Len(s))

\* float() of a text with no whitespace at its ends.
FloatOfStripped(t) ==
  LET signed == t # <<>> /\ t[1] \in {"+", "-"}
      neg == signed /\ t[1] = "-"
      body == IF signed THEN Tail(t) ELSE t
      low == SubSeq([i \in 1..Len(body) |-> ToLower(body[i])], 1, Len(body))
  IN IF low \in {<<"i", "n", "f">>, <<"i", "n", "f", "i", "n", "i", "t", "y">>}
     THEN Infinity(neg)
     ELSE IF low = <<"n", "a", "n">> THEN NaN
     ELSE ParseDecimal(neg, low)

PyFloat(s) ==
  FloatOfStripped(RStripOf(LStripOf(FloatText(s), FloatWhitespace), FloatWhitespace))
\* return float(cleaned), and return None when float raised ValueError: what
\* the call returns (an optional float), or that an exception left it.
clean_amount_return(f) ==
  IF f = ValueError
  THEN [raised |-> FALSE, ret |-> None]
  ELSE [raised |-> FALSE, ret |-> Some(f)]

\* The outcome of clean_amount(amount_str).
clean_amount_call(amount_str) ==
  IF amount_str = <<>>
  THEN [raised |-> FALSE, ret |-> None]
  ELSE clean_amount_return(
         PyFloat(NormalizeSeparators(StripCurrency(StrStrip(amount_str), 1))))

clean_amount(amount_str) == clean_amount_call(amount_str).ret

(***************************************************************************)
(* extract_expense_data                                                    *)
(***************************************************************************)
LegalEntityLabel ==
  <<"C", "u", "s", "t", "o", "m", " ", "1", "0", "-", "L", "e", "g", "a",
    "l", " ", "E", "n", "t", "i", "t", "y">>

CurrencyLabel ==
  <<"C", "u", "r", "r", "e", "n", "c", "y">>

AmountDueEmployeeLabel ==
  <<"A", "m", "o", "u", "n", "t", " ", "D", "u", "e", " ", "E", "m", "p",
    "l", "o", "y", "e", "e">>

AmountDueCompanyCardLabel ==
  <<"A", "m", "o", "u", "n", "t", " ", "D", "u", "e", " ", "C", "o", "m",
    "p", "a", "n", "y", " ", "C", "a", "r", "d">>

TotalPaidByCompanyLabel ==
  <<"T", "o", "t", "a", "l", " ", "P", "a", "i", "d", " ", "B", "y", " ",
    "C", "o", "m", "p", "a", "n", "y">>

\* \w: str.isalnum(), and the underscore.
WordChars == {Chr(WordCodePoints[k]) : k \in 1..Len(WordCodePoints)}
\* [\d,.]
AmountChars == Digits \cup {",", "."}
\* (?:USD|EUR|€)
AmountPrefixes == {<<"U", "S", "D">>, <<"E", "U", "R">>, <<"€">>}

\* re.search, given the pattern's match at every position of the text: the
\* capture of the leftmost position where the pattern matches.
ReSearch(matchAt) ==
  LET hits == {p \in 1..Len(matchAt) : matchAt[p] # None}
  IN IF hits = {} THEN None
     ELSE matchAt[CHOOSE p \in hits : \A r \in hits : p <= r]

\* The position after a match of  label\s*:  at p, 0 when there is none.
AfterLabelColon(text, p, label) ==
  IF ~StartsWith(text, p, label) THEN 0
  ELSE LET q == SkipWhitespace(text, p + Len(label))
       IN IF q <= Len(text) /\ text[q] = ":" THEN q + 1 ELSE 0

\* Custom 10-Legal Entity\s*:\s*(\S+)  at p: group 1, or None.
LegalEntityMatchAt(text, p) ==
  LET a == AfterLabelColon(text, p, LegalEntityLabel)
      b == SkipWhitespace(text, a)
      e == SkipUntil(text, b, Whitespace)
  IN IF a # 0 /\ e > b THEN Some(SubSeq(text, b, e - 1)) ELSE None

\* Currency\s*:\s*([^\n]+)  at p: group 1, or None.  The \s* is greedy and
\* gives whitespace back until [^\n]+ has a character to start on.
CurrencyMatchAt(text, p) ==
  LET a == AfterLabelColon(text, p, CurrencyLabel)
      r == SkipWhitespace(text, a)
      starts == {k \in a..r : k <= Len(text) /\ text[k] # "\n"}
      b == CHOOSE k \in starts : \A j \in starts : j <= k
      e == SkipUntil(text, b, {"\n"})
  IN IF a # 0 /\ starts # {} THEN Some(SubSeq(text, b, e - 1)) ELSE None

\* label\s*:\s*(?:USD|EUR|€)?\s*([\d,.]+)  at p: group 1, or None.
AmountMatchAt(text, p, label) ==
  LET a == AfterLabelColon(text, p, label)
      b == SkipWhitespace(text, a)
      c == IF \E m \in AmountPrefixes : StartsWith(text, b, m)
           THEN b + Len(CHOOSE m \in AmountPrefixes : StartsWith(text, b, m))
           ELSE b
      d == SkipWhitespace(text, c)
      e == SkipWhile(text, d, AmountChars)
  IN IF a # 0 /\ e > d THEN Some(SubSeq(text, d, e - 1)) ELSE None

\* re.sub(r'[^\w$]', '', s)
CleanLegalEntity(s) == SelectSeq(s, LAMBDA c : c \in WordChars \cup {"$"})

\* The field that a match of an amount pattern sets: clean_amount on
\* group 1 (the field stays None with no match).
AmountOfMatch(match) ==
  IF match # None /\ match[1] # <<>> THEN clean_amount(match[1]) ELSE None

\* One of the three amount fields: search, then clean_amount on group 1.
ExtractAmount(text, label) ==
  AmountOfMatch(ReSearch([p \in 1..Len(text) |-> AmountMatchAt(text, p, label)]))

\* The ExpenseData with the fields set from the matches.
ExpenseData(legal_entity_match, currency_match, employee, company_card, company) ==
  [file_name |-> None,
   legal_entity |->
     IF legal_entity_match # None
     THEN Some(CleanLegalEntity(StrStrip(legal_entity_match[1])))
     ELSE None,
   currency |->
     IF currency_match # None THEN Some(StrStrip(currency_match[1])) ELSE None,
   amount_due_employee |-> employee,
   amount_due_company_card |-> company_card,
   total_paid_by_company |-> company]

\* The ExpenseData that extract_expense_data(text) returns.
extract_expense_data(text) ==
  ExpenseData(ReSearch([p \in 1..Len(text) |-> LegalEntityMatchAt(text, p)]),
              ReSearch([p \in 1..Len(text) |-> CurrencyMatchAt(text, p)]),
              ExtractAmount(text, AmountDueEmployeeLabel),
              ExtractAmount(text, AmountDueCompanyCardLabel),
              ExtractAmount(text, TotalPaidByCompanyLabel))

(***************************************************************************)
(* The documents on disk.  A path stands for a PDF file; PdfPages is what  *)
(* PdfReader(path).pages and page.extract_text() give for a readable one.  *)
(***************************************************************************)
NL == <<"\n">>

\* One text line "label : value".
Line(label, value) == label \o <<" ", ":", " ">> \o value

\* The summary page of section 8 of the specification.
SummaryText ==
  Line(LegalEntityLabel, <<"A", "C", "M", "E", "$", "1">>) \o NL
  \o Line(CurrencyLabel, <<"U", "S", "D">>) \o NL
  \o Line(AmountDueEmployeeLabel,
          <<"U", "S", "D", " ", "1", ",", "2", "3", "4", ".", "5", "6">>) \o NL
  \o Line(AmountDueCompanyCardLabel,
          <<"(", "2", "0", "0", ".", "0", "0", ")">>) \o NL
  \o Line(TotalPaidByCompanyLabel, <<"1", ".", "0", "3", "4", ",", "5", "6">>)

HeaderText ==
  Line(LegalEntityLabel, <<"A", "C", "M", "E", "-", "C", "o", "r", "p">>) \o NL
  \o Line(CurrencyLabel, <<"E", "u", "r", "o">>)

AmountsText ==
  Line(AmountDueEmployeeLabel, <<"€", " ", "1", "2", ",", "5">>) \o NL
  \o Line(TotalPaidByCompanyLabel, <<"7">>)

\* The button commands the model lets the user run.
MaxClicks == 3

\* The PDF files the file dialog offers.
Paths == {"/docs/a.pdf", "/docs/b.pdf"}

\* os.path.basename
Basename(path) ==
  CASE path = "/docs/a.pdf" -> "a.pdf"
    [] path = "/docs/b.pdf" -> "b.pdf"

\* os.path.splitext(filename)[0]
Stem(filename) ==
  CASE filename = "a.pdf" -> "a"
    [] filename = "b.pdf" -> "b"

\* The text of each page of a readable document.
PdfPages(path) ==
  CASE path = "/docs/a.pdf" -> <<SummaryText>>
    [] path = "/docs/b.pdf" -> <<HeaderText, AmountsText>>

\* combined_text after the page loop: every page's text and a newline.
RECURSIVE CombinedText(_)
CombinedText(pages) ==
  IF pages = <<>> THEN <<>>
  ELSE Head(pages) \o NL \o CombinedText(Tail(pages))

\* What askopenfilenames can return: a tuple of distinct paths, or () when
\* the dialog is cancelled.
Selections ==
  {sel \in UNION {[1..n -> Paths] : n \in 0..Cardinality(Paths)} :
     \A i, j \in 1..Len(sel) : i # j => sel[i] # sel[j]}

(***************************************************************************)
(* State.                                                                  *)
(***************************************************************************)
VARIABLES
  \* PDFProcessorApp
  selected_files,   \* self.selected_files
  files_label,      \* the text of self.files_label
  status_label,     \* the text of self.status_label
  progress,         \* self.progress['value'], as [num, den]
  results_text,     \* the lines of self.results_text
  \* the commands under way, the innermost last: a call of process_files
  \* that is inside root.update() stays here while a button's command runs
  calls,
  \* the environment of the application
  ui_alive,         \* the Tk window exists: every widget call raises TclError once it is destroyed
  corrupt,          \* the paths PdfReader cannot read
  writable,         \* the Desktop folder can be written
  clock,            \* the seconds in which a call has read datetime.now()
  clicks,           \* the button commands run so far
  dialog,           \* the last messagebox shown
  stdout,           \* what print() wrote
  disk,             \* the directories and page files written
  csv,              \* expense_data.csv of each output directory, once written
  uncaught,         \* an exception left a command (select_files, process_files)
  \* a call of clean_amount
  amount_pc, amount_str, amount_ret,
  \* a call of extract_expense_data
  extract_pc, lines, text, data

app_vars == <<selected_files, files_label, status_label, progress, results_text>>
env_vars == <<ui_alive, corrupt, writable, clock, clicks, dialog, stdout, disk, csv, uncaught>>
amount_vars == <<amount_pc, amount_str, amount_ret>>
extract_vars == <<extract_pc, lines, text, data>>
vars == <<app_vars, calls, env_vars, amount_vars, extract_vars>>

NoDialog == [kind |-> "none", title |-> ""]

\* __init__, and no call of the two functions under way.
AppInit ==
  /\ selected_files = <<>>
  /\ files_label = <<"No files selected">>
  /\ status_label = <<"Ready">>
  /\ progress = [num |-> 0, den |-> 1]
  /\ results_text = <<>>
  /\ calls = <<>>
  /\ ui_alive = TRUE
  /\ clock = 0
  /\ clicks = 0
  /\ dialog = NoDialog
  /\ stdout = <<>>
  /\ disk = {}
  /\ csv = <<>>
  /\ uncaught = FALSE

AmountIdle ==
  /\ amount_pc = "off"
  /\ amount_str = <<>>
  /\ amount_ret = None

ExtractIdle ==
  /\ extract_pc = "off"
  /\ lines = <<>>
  /\ text = <<>>
  /\ data = None

(***************************************************************************)
(* PDFProcessorApp under root.mainloop().  Tk runs a button's command from *)
(* the event loop: from mainloop() when no command is running, and from    *)
(* root.update() inside process_files.  A dialog (askopenfilenames,        *)
(* messagebox) waits for its answer in the event loop too, with the input  *)
(* grabbed: no button's command runs meanwhile, but the window can be      *)
(* closed (Tk's own dialogs, as on X11; a native dialog keeps the window   *)
(* open), and the call of the dialog raises TclError then.                 *)
(***************************************************************************)
Init ==
  /\ AppInit
  /\ corrupt \in SUBSET Paths
  /\ writable \in BOOLEAN
  /\ AmountIdle
  /\ ExtractIdle

\* The innermost command under way, and the calls with it replaced.
Top == calls[Len(calls)]
WithTop(frame) == [calls EXCEPT ![Len(calls)] = frame]

\* Where a call is while it is inside root.update(): lines 153, 182, 200.
UpdatePoints == {"update_status", "update_page", "update_progress"}

\* Where a command is while a dialog of the window waits for its answer:
\* lines 123, 135, 222.
DialogPoints == {"askopenfilenames", "showwarning", "showinfo"}

\* The event loop is dispatching the events of the window's buttons.
InEventLoop ==
  ui_alive /\ (IF calls = <<>> THEN TRUE ELSE Top.pc \in UpdatePoints)

\* The event loop is running: in mainloop(), in root.update(), or under a
\* dialog.
EventLoopRuns ==
  ui_alive /\ (IF calls = <<>> THEN TRUE ELSE Top.pc \in UpdatePoints \cup DialogPoints)

\* The user closes the window: Tk destroys it.
close_window ==
  /\ EventLoopRuns
  /\ ui_alive' = FALSE
  /\ UNCHANGED <<corrupt, writable, clock, clicks, dialog, stdout, disk, csv, uncaught>>
  /\ UNCHANGED <<app_vars, calls, amount_vars, extract_vars>>

\* The locals of a call of process_files.
Call(pc, files, output_dir) ==
  [pc |-> pc,
   output_dir |-> output_dir,
   files |-> files,
   index |-> 0,
   page_num |-> 0,
   processed_data |-> <<>>,
   exc |-> None]

\* A command that waits at a dialog before it has any local.
DialogCall(pc) == Call(pc, <<>>, 0)

\* select_files, the command of "Select PDFs": the file dialog opens.
select_files ==
  /\ InEventLoop
  /\ clicks < MaxClicks
  /\ clicks' = clicks + 1
  /\ calls' = Append(calls, DialogCall("askopenfilenames"))
  /\ UNCHANGED <<ui_alive, corrupt, writable, clock, dialog, stdout, disk, csv, uncaught>>
  /\ UNCHANGED <<app_vars, amount_vars, extract_vars>>

\* askopenfilenames returns the files chosen (none when it is cancelled),
\* and select_files stores a selection that is not empty; or the window was
\* closed under the dialog, and the TclError leaves select_files.
askopenfilenames_return ==
  /\ calls # <<>>
  /\ Top.pc = "askopenfilenames"
  /\ calls' = SubSeq(calls, 1, Len(calls) - 1)
  /\ IF ~ui_alive
     THEN /\ uncaught' = TRUE
          /\ UNCHANGED <<selected_files, files_label>>
     ELSE /\ \E files \in Selections :
               IF files # <<>>
               THEN /\ selected_files' = files
                    /\ files_label' = <<Len(files), "files selected">>
               ELSE UNCHANGED <<selected_files, files_label>>
          /\ UNCHANGED uncaught
  /\ UNCHANGED <<status_label, progress, results_text>>
  /\ UNCHANGED <<ui_alive, corrupt, writable, clock, clicks, dialog, stdout, disk, csv>>
  /\ UNCHANGED <<amount_vars, extract_vars>>

\* process_files, the command of "Process PDFs", with nothing selected: the
\* warning opens.
process_files_none ==
  /\ InEventLoop
  /\ clicks < MaxClicks
  /\ selected_files = <<>>
  /\ clicks' = clicks + 1
  /\ dialog' = [kind |-> "warning", title |-> "No Files"]
  /\ calls' = Append(calls, DialogCall("showwarning"))
  /\ UNCHANGED <<ui_alive, corrupt, writable, clock, stdout, disk, csv, uncaught>>
  /\ UNCHANGED <<app_vars, amount_vars, extract_vars>>

\* showwarning returns, and process_files with it; or the window was closed
\* under the warning, and the TclError leaves process_files.
showwarning_return ==
  /\ calls # <<>>
  /\ Top.pc = "showwarning"
  /\ uncaught' = (uncaught \/ ~ui_alive)
  /\ calls' = WithTop([Top EXCEPT !.pc = "return"])
  /\ UNCHANGED <<ui_alive, corrupt, writable, clock, clicks, dialog, stdout, disk, csv>>
  /\ UNCHANGED <<app_vars, amount_vars, extract_vars>>

\* The locals of a call of process_files when it enters the outer try.
\* self.selected_files is read here: the loop goes over this tuple whatever
\* is selected later.
NewCall(files, output_dir) == Call("for", files, output_dir)

\* process_files up to the loop: the output directory, named by the second
\* of the clock (the second of the call before, or a later one), and the
\* progress bar.  os.makedirs is outside the try: when it fails the
\* exception leaves process_files.
process_files_start ==
  /\ InEventLoop
  /\ clicks < MaxClicks
  /\ selected_files # <<>>
  /\ clicks' = clicks + 1
  /\ IF ~writable
     THEN /\ uncaught' = TRUE
          /\ UNCHANGED <<clock, disk, csv, progress, calls>>
     ELSE \E now \in {clock, clock + 1} :
            /\ now > 0
            /\ clock' = now
            /\ disk' = disk \cup {<<"dir", now>>}
            /\ csv' = IF now > Len(csv) THEN Append(csv, None) ELSE csv
            /\ progress' = [num |-> 0, den |-> 1]
            /\ calls' = Append(calls, NewCall(selected_files, now))
            /\ UNCHANGED uncaught
  /\ UNCHANGED <<selected_files, files_label, status_label, results_text>>
  /\ UNCHANGED <<ui_alive, corrupt, writable, dialog, stdout>>
  /\ UNCHANGED <<amount_vars, extract_vars>>

\* The file of the current iteration of the innermost call.
pdf_file == Top.files[Top.index + 1]
filename == Basename(pdf_file)
num_pages == Len(PdfPages(pdf_file))

\* The head of the for loop, and the status update before root.update().
loop_head ==
  /\ calls # <<>>
  /\ Top.pc = "for"
  /\ IF Top.index = Len(Top.files)
     THEN /\ calls' = WithTop([Top EXCEPT !.pc = "export"])
          /\ UNCHANGED status_label
     ELSE IF ~ui_alive
     THEN /\ calls' = WithTop([Top EXCEPT !.pc = "outer_except",
                                          !.exc = Some("TclError")])
          /\ UNCHANGED status_label
     ELSE /\ status_label' = <<"Processing: ", filename>>
          /\ calls' = WithTop([Top EXCEPT !.pc = "update_status"])
  /\ UNCHANGED <<selected_files, files_label, progress, results_text>>
  /\ UNCHANGED <<env_vars, amount_vars, extract_vars>>

\* root.update() returns to the call that made it.  The window may have been
\* closed in it; the next use of a widget raises TclError then.
update_return ==
  /\ calls # <<>>
  /\ Top.pc \in UpdatePoints
  /\ calls' = WithTop(
       CASE Top.pc = "update_status" -> [Top EXCEPT !.pc = "try"]
         [] Top.pc = "update_page" ->
              [Top EXCEPT !.pc = "page", !.page_num = Top.page_num + 1]
         [] Top.pc = "update_progress" -> [Top EXCEPT !.pc = "log_success"])
  /\ UNCHANGED <<app_vars, env_vars, amount_vars, extract_vars>>

\* The inner try up to the page loop: the page directory and PdfReader.
open_document ==
  /\ calls # <<>>
  /\ Top.pc = "try"
  /\ disk' = disk \cup {<<"dir", Top.output_dir, Stem(filename)>>}
  /\ calls' = WithTop(
       IF pdf_file \in corrupt
       THEN [Top EXCEPT !.pc = "except", !.exc = Some("PdfReadError")]
       ELSE [Top EXCEPT !.pc = "page", !.page_num = 0])
  /\ UNCHANGED <<ui_alive, corrupt, writable, clock, clicks, dialog, stdout, csv, uncaught>>
  /\ UNCHANGED <<app_vars, amount_vars, extract_vars>>

\* One turn of the page loop: the page's file, its log line, root.update().
split_page ==
  /\ calls # <<>>
  /\ Top.pc = "page"
  /\ Top.page_num < num_pages
  /\ disk' = disk \cup {<<"page", Top.output_dir, Stem(filename), Top.page_num + 1>>}
  /\ IF ~ui_alive
     THEN /\ calls' = WithTop([Top EXCEPT !.pc = "except", !.exc = Some("TclError")])
          /\ UNCHANGED results_text
     ELSE /\ results_text' =
               Append(results_text, <<"Extracted page", Top.page_num + 1, filename>>)
          /\ calls' = WithTop([Top EXCEPT !.pc = "update_page"])
  /\ UNCHANGED <<selected_files, files_label, status_label, progress>>
  /\ UNCHANGED <<ui_alive, corrupt, writable, clock, clicks, dialog, stdout, csv, uncaught>>
  /\ UNCHANGED <<amount_vars, extract_vars>>

\* The dict appended to processed_data.
Record(name, expense_data) ==
  [File_Name |-> name,
   Legal_Entity |-> expense_data.legal_entity,
   Currency |-> expense_data.currency,
   Amount_Due_Employee |-> expense_data.amount_due_employee,
   Amount_Due_Company_Card |-> expense_data.amount_due_company_card,
   Total_Paid_By_Company |-> expense_data.total_paid_by_company]

\* processed_data.append(record), with the record put first instead.
AddRecord_AtFront(list, record) == <<record>> \o list

\* processed_data.append(record)
AddRecord(list, record) == Append(list, record)

\* After the page loop: extract_expense_data on the text of all the pages,
\* and the append.
add_record ==
  /\ calls # <<>>
  /\ Top.pc = "page"
  /\ Top.page_num = num_pages
  /\ calls' = WithTop([Top EXCEPT
       !.pc = "progress",
       !.processed_data =
         AddRecord(Top.processed_data,
                   Record(filename,
                          extract_expense_data(CombinedText(PdfPages(pdf_file)))))])
  /\ UNCHANGED <<app_vars, env_vars, amount_vars, extract_vars>>

\* The progress bar, before root.update().
set_progress ==
  /\ calls # <<>>
  /\ Top.pc = "progress"
  /\ IF ~ui_alive
     THEN /\ calls' = WithTop([Top EXCEPT !.pc = "except", !.exc = Some("TclError")])
          /\ UNCHANGED progress
     ELSE /\ progress' = [num |-> (Top.index + 1) * 100, den |-> Len(Top.files)]
          /\ calls' = WithTop([Top EXCEPT !.pc = "update_progress"])
  /\ UNCHANGED <<selected_files, files_label, status_label, results_text>>
  /\ UNCHANGED <<env_vars, amount_vars, extract_vars>>

\* The success line that ends the inner try.
log_success ==
  /\ calls # <<>>
  /\ Top.pc = "log_success"
  /\ IF ~ui_alive
     THEN /\ calls' = WithTop([Top EXCEPT !.pc = "except", !.exc = Some("TclError")])
          /\ UNCHANGED results_text
     ELSE /\ results_text' =
               Append(results_text, <<"Successfully processed", filename, num_pages>>)
          /\ calls' = WithTop([Top EXCEPT !.pc = "for", !.index = Top.index + 1])
  /\ UNCHANGED <<selected_files, files_label, status_label, progress>>
  /\ UNCHANGED <<env_vars, amount_vars, extract_vars>>

\* Where the inner handler goes once it has logged, were it to raise again.
AfterDiagnostic_Reraise == "outer_except"

\* Where the inner handler goes once it has logged: the next document.
AfterDiagnostic == "for"

\* except Exception as e: of the inner try.
inner_except ==
  /\ calls # <<>>
  /\ Top.pc = "except"
  /\ IF ~ui_alive
     THEN /\ calls' = WithTop([Top EXCEPT !.pc = "outer_except",
                                          !.exc = Some("TclError")])
          /\ UNCHANGED <<results_text, stdout>>
     ELSE /\ results_text' =
               Append(results_text, <<"Error processing", filename, Top.exc[1]>>)
          /\ stdout' = Append(stdout, <<"Error processing", filename, Top.exc[1]>>)
          /\ calls' = WithTop(
               IF AfterDiagnostic = "for"
               THEN [Top EXCEPT !.pc = "for", !.index = Top.index + 1, !.exc = None]
               ELSE [Top EXCEPT !.pc = AfterDiagnostic])
  /\ UNCHANGED <<selected_files, files_label, status_label, progress>>
  /\ UNCHANGED <<ui_alive, corrupt, writable, clock, clicks, dialog, disk, csv, uncaught>>
  /\ UNCHANGED <<amount_vars, extract_vars>>

\* After the loop: the CSV when there are records, then the completion
\* status, and the completion dialog opens.
export ==
  /\ calls # <<>>
  /\ Top.pc = "export"
  /\ csv' = IF Top.processed_data # <<>>
            THEN [csv EXCEPT ![Top.output_dir] = Some(Top.processed_data)]
            ELSE csv
  /\ IF ~ui_alive
     THEN /\ calls' = WithTop([Top EXCEPT !.pc = "outer_except",
                                          !.exc = Some("TclError")])
          /\ UNCHANGED <<results_text, status_label, dialog>>
     ELSE /\ results_text' =
               IF Top.processed_data # <<>>
               THEN results_text \o <<<<"Processing complete!">>,
                                      <<"Data exported to", "expense_data.csv">>>>
               ELSE results_text
          /\ status_label' = <<"Processing complete!">>
          /\ dialog' = [kind |-> "info", title |-> "Complete"]
          /\ calls' = WithTop([Top EXCEPT !.pc = "showinfo"])
  /\ UNCHANGED <<selected_files, files_label, progress>>
  /\ UNCHANGED <<ui_alive, corrupt, writable, clock, clicks, stdout, disk, uncaught>>
  /\ UNCHANGED <<amount_vars, extract_vars>>

\* showinfo returns and the outer try ends; or the window was closed under
\* the dialog, and its TclError goes to the outer handler.
showinfo_return ==
  /\ calls # <<>>
  /\ Top.pc = "showinfo"
  /\ calls' = WithTop(
       IF ui_alive
       THEN [Top EXCEPT !.pc = "finally"]
       ELSE [Top EXCEPT !.pc = "outer_except", !.exc = Some("TclError")])
  /\ UNCHANGED <<app_vars, env_vars, amount_vars, extract_vars>>

\* except Exception as e: of the outer try.  The window is gone whenever an
\* exception reaches this handler, and showerror makes a root of its own:
\* nothing of the application runs while it waits.
outer_except ==
  /\ calls # <<>>
  /\ Top.pc = "outer_except"
  /\ dialog' = [kind |-> "error", title |-> "Error"]
  /\ calls' = WithTop([Top EXCEPT !.pc = "finally", !.exc = None])
  /\ UNCHANGED <<ui_alive, corrupt, writable, clock, clicks, stdout, disk, csv, uncaught>>
  /\ UNCHANGED <<app_vars, amount_vars, extract_vars>>

\* self.progress['value'] = 0, the last statement.
reset_progress ==
  /\ calls # <<>>
  /\ Top.pc = "finally"
  /\ IF ui_alive
     THEN progress' = [num |-> 0, den |-> 1] /\ UNCHANGED uncaught
     ELSE uncaught' = TRUE /\ UNCHANGED progress
  /\ calls' = WithTop([Top EXCEPT !.pc = "return"])
  /\ UNCHANGED <<selected_files, files_label, status_label, results_text>>
  /\ UNCHANGED <<ui_alive, corrupt, writable, clock, clicks, dialog, stdout, disk, csv>>
  /\ UNCHANGED <<amount_vars, extract_vars>>

\* process_files returns (or its exception is reported by Tk) to the event
\* loop that ran it.
process_files_return ==
  /\ calls # <<>>
  /\ Top.pc = "return"
  /\ calls' = SubSeq(calls, 1, Len(calls) - 1)
  /\ UNCHANGED <<app_vars, env_vars, amount_vars, extract_vars>>

Next ==
  \/ close_window
  \/ select_files
  \/ askopenfilenames_return
  \/ process_files_none
  \/ showwarning_return
  \/ process_files_start
  \/ loop_head
  \/ update_return
  \/ open_document
  \/ split_page
  \/ add_record
  \/ set_progress
  \/ log_success
  \/ inner_except
  \/ export
  \/ showinfo_return
  \/ outer_except
  \/ reset_progress
  \/ process_files_return

Spec == Init /\ [][Next]_vars

(***************************************************************************)
(* clean_amount on its own: every input drawn, one call each.              *)
(***************************************************************************)
MaxSepLen == 5
MaxWideLen == 3

\* Strings over `alphabet` of length at most n.
StringsUpTo(alphabet, n) == UNION {[1..k -> alphabet] : k \in 0..n}

SepAlphabet == {"1", "5", ",", "."}
WideAlphabet ==
  {"1", ",", ".", "-", "(", ")", " ", "$", "N", "/", "A", "_", "e", "U+0663", "U+000D"}

SepStrings == StringsUpTo(SepAlphabet, MaxSepLen)

AmountExamples ==
  {<<"1", ".", "2", "3", "4", ",", "5", "6">>,
   <<"1", ",", "2", "3", "4", ".", "5", "6">>,
   <<"1", ",", "2", "3", "4">>,
   <<"1", ".", "2", "3", "4">>,
   <<"(", "1", ",", "2", "3", "4", ".", "5", "6", ")">>,
   <<"U", "S", "D", " ", "1", ",", "2", "3", "4", ".", "5", "6">>,
   <<"1", ",", "2", "3", "4", ".", "5", "6", " ", "U", "S", "D">>,
   <<"U", "S", "D", " ">>,
   <<"€", " ", "$">>,
   <<"N", "/", "A">>,
   <<"-", "-">>,
   <<"i", "n", "f">>,
   <<"1", "e", "9", "9", "9">>,
   <<"-", "1", "e", "9", "9", "9">>,
   <<"1", "e", "-", "9", "9", "9">>,
   <<"1", "e", "1", "0", "0", "0", "0", "0", "0", "0", "0", "0">>,
   <<"1", "e", "-", "0", "0", "0", "0", "0", "0", "0", "0", "0", "2">>,
   <<"9", "0", "0", "7", "1", "9", "9", "2", "5", "4", "7", "4", "0", "9", "9", "3">>,
   <<"U+0661", "U+0662">>,
   <<"U+FF11", ".", "5">>,
   <<"U+00A0", "1", "U+2003">>,
   <<"U+001C", "1">>,
   <<"(", "U+001C", "1", ")">>,
   <<"1", "U+000D", "\n">>}

AmountInputs ==
  SepStrings
  \cup {<<"(">> \o s \o <<")">> : s \in SepStrings}
  \cup {<<"-">> \o s : s \in SepStrings}
  \cup StringsUpTo(WideAlphabet, MaxWideLen)
  \cup AmountExamples

AmountInit ==
  /\ AppInit
  /\ corrupt = {}
  /\ writable = TRUE
  /\ ExtractIdle
  /\ amount_pc = "call"
  /\ amount_str \in AmountInputs
  /\ amount_ret = None

\* The call clean_amount(amount_str).
call_clean_amount ==
  /\ amount_pc = "call"
  /\ LET out == clean_amount_call(amount_str)
     IN /\ amount_pc' = IF out.raised THEN "raised" ELSE "return"
        /\ amount_ret' = out.ret
  /\ UNCHANGED <<amount_str, app_vars, env_vars, calls, extract_vars>>

AmountNext == call_clean_amount

SpecAmount == AmountInit /\ [][AmountNext]_vars

(***************************************************************************)
(* extract_expense_data on its own.  A text is drawn as five lines, one    *)
(* per field and in the order of the fields, each possibly empty.          *)
(***************************************************************************)
MaxEntityLen == 2
MaxAmountLen == 2

Fields == 1..5

FieldLabel(f) ==
  CASE f = 1 -> LegalEntityLabel
    [] f = 2 -> CurrencyLabel
    [] f = 3 -> AmountDueEmployeeLabel
    [] f = 4 -> AmountDueCompanyCardLabel
    [] f = 5 -> TotalPaidByCompanyLabel

\* Field f of an ExpenseData.
FieldOf(d, f) ==
  CASE f = 1 -> d.legal_entity
    [] f = 2 -> d.currency
    [] f = 3 -> d.amount_due_employee
    [] f = 4 -> d.amount_due_company_card
    [] f = 5 -> d.total_paid_by_company

RECURSIVE Join(_)
Join(ls) == IF ls = <<>> THEN <<>> ELSE Head(ls) \o Join(Tail(ls))

NotAvailable == <<"N", "/", "A">>

\* A well-formed line of each field.
GoodLine(f) ==
  CASE f = 1 -> Line(LegalEntityLabel, <<"A", "C", "M", "E", "$", "1">>) \o NL
    [] f = 2 -> Line(CurrencyLabel, <<"U", "S", "D">>) \o NL
    [] f = 3 -> Line(AmountDueEmployeeLabel,
                     <<"U", "S", "D", " ", "1", ",", "2", "3", "4", ".", "5", "6">>) \o NL
    [] f = 4 -> Line(AmountDueCompanyCardLabel, <<"2", "0", "0", ".", "0", "0">>) \o NL
    [] f = 5 -> Line(TotalPaidByCompanyLabel,
                     <<"1", ".", "0", "3", "4", ",", "5", "6">>) \o NL

\* The label and the colon, and no value on the line.
EmptyValueLine(f) == FieldLabel(f) \o <<" ", ":">> \o NL

\* Lines of a field whose label is missing (the empty line) or whose value
\* is malformed: no value, a token with no letter or digit, not a number.
BadLines(f) ==
  CASE f = 1 -> {<<>>, EmptyValueLine(1), Line(LegalEntityLabel, <<"-", "-", "-">>) \o NL}
    [] f = 2 -> {<<>>, EmptyValueLine(2)}
    [] f = 3 -> {<<>>, Line(AmountDueEmployeeLabel, NotAvailable) \o NL,
                 Line(AmountDueEmployeeLabel, <<"1", ".", "2", ".", "3">>) \o NL}
    [] f = 4 -> {<<>>, Line(AmountDueCompanyCardLabel, NotAvailable) \o NL}
    [] f = 5 -> {<<>>, Line(TotalPaidByCompanyLabel, NotAvailable) \o NL}

ComboLines == {ls \in [Fields -> UNION {BadLines(f) \cup {GoodLine(f)} : f \in Fields}] :
                 \A f \in Fields : ls[f] \in BadLines(f) \cup {GoodLine(f)}}

EntityAlphabet == {"A", "b", "é", "U+00E7", "U+00B3", "1", "$", "-", "_", "."}

EntityValues ==
  StringsUpTo(EntityAlphabet, MaxEntityLen)
  \cup {<<"A", "C", "M", "E", "-", "C", "o", "r", "p", " ">>}

\* The legal entity's value drawn, the other lines well-formed.
EntityLines ==
  {[f \in Fields |-> IF f = 1 THEN Line(LegalEntityLabel, v) \o NL ELSE GoodLine(f)] :
     v \in EntityValues}

CaptureAlphabet == {"2", "U+0662", ",", ".", "(", ")", "-"}

AmountValues == StringsUpTo(CaptureAlphabet, MaxAmountLen) \ {<<>>}

\* The company card amount drawn, the other lines well-formed.
AmountLines ==
  {[f \in Fields |-> IF f = 4 THEN Line(AmountDueCompanyCardLabel, v) \o NL
                     ELSE GoodLine(f)] :
     v \in AmountValues}

\* The five lines of SummaryText.
SummaryLines ==
  [f \in Fields |->
     CASE f = 4 -> Line(AmountDueCompanyCardLabel,
                        <<"(", "2", "0", "0", ".", "0", "0", ")">>) \o NL
       [] f = 5 -> Line(TotalPaidByCompanyLabel,
                        <<"1", ".", "0", "3", "4", ",", "5", "6">>)
       [] OTHER -> GoodLine(f)]

\* A line of a text file with CR LF line ends.
CrLf(line) == SubSeq(line, 1, Len(line) - 1) \o <<"U+000D", "\n">>

CrLfLines == [f \in Fields |-> CrLf(GoodLine(f))]

\* The well-formed lines with a no-break space on each side of the colon.
NoBreakSpace == <<"U+00A0">>

NoBreakLines ==
  [f \in Fields |->
     LET good == GoodLine(f)
         n == Len(FieldLabel(f))
     IN SubSeq(good, 1, n) \o NoBreakSpace \o <<":">> \o NoBreakSpace
        \o SubSeq(good, n + 4, Len(good))]

ExtractInputs ==
  ComboLines \cup EntityLines \cup AmountLines
  \cup {SummaryLines, CrLfLines, NoBreakLines}

ExtractInit ==
  /\ AppInit
  /\ corrupt = {}
  /\ writable = TRUE
  /\ AmountIdle
  /\ extract_pc = "call"
  /\ lines \in ExtractInputs
  /\ text = Join(lines)
  /\ data = None

\* The call extract_expense_data(text).
call_extract_expense_data ==
  /\ extract_pc = "call"
  /\ data' = Some(extract_expense_data(text))
  /\ extract_pc' = "return"
  /\ UNCHANGED <<lines, text, app_vars, env_vars, calls, amount_vars>>

ExtractNext == call_extract_expense_data

SpecExtract == ExtractInit /\ [][ExtractNext]_vars

(***************************************************************************)
(* Properties of a batch run (Spec).  A batch run is a call of             *)
(* process_files; its documents are the files it read from                 *)
(* self.selected_files when it started.                                    *)
(***************************************************************************)
\* The record of the document at `path` is in the list rows.
HasRecordIn(rows, path) ==
  \E k \in 1..Len(rows) : rows[k].File_Name = Basename(path)

\* The log holds an error line naming the document at `path`.
HasDiagnostic(path) ==
  \E m \in 1..Len(results_text) :
    /\ results_text[m][1] = "Error processing"
    /\ results_text[m][2] = Basename(path)

\* The position in `files` of the document a record names.
PositionOf(files, name) ==
  CHOOSE i \in 1..Len(files) : Basename(files[i]) = name

\* The innermost call has run to its end.
Ended == calls # <<>> /\ Top.pc = "return"

\* C1: when a run has ended and the window was not closed under it, every
\* document of the run that is readable has its record in the run's list and
\* in the CSV of the run's output directory, whichever documents of the run
\* are unreadable and wherever they stand, and whatever commands ran
\* meanwhile.
C1_ReadableDocumentsHaveRecords ==
  (Ended /\ ui_alive) =>
    \A i \in 1..Len(Top.files) :
      Top.files[i] \notin corrupt =>
        /\ HasRecordIn(Top.processed_data, Top.files[i])
        /\ csv[Top.output_dir] # None
        /\ HasRecordIn(csv[Top.output_dir][1], Top.files[i])

\* A run over two documents, the first unreadable, ended with the record of
\* the second collected and exported.
C1_Witness ==
  /\ Ended
  /\ ui_alive
  /\ Len(Top.files) = 2
  /\ Top.files[1] \in corrupt
  /\ Top.files[2] \notin corrupt
  /\ Len(Top.processed_data) = 1
  /\ HasRecordIn(Top.processed_data, Top.files[2])
  /\ csv[Top.output_dir] = Some(Top.processed_data)

\* C2: at every point of every run the records name documents of the run,
\* in the order of the run's documents and each at most once; no unreadable
\* document has a record; and every unreadable document the loop has moved
\* past has an error line naming it in the log.
C2_RecordsInOrderFailuresDiagnosed ==
  \A c \in 1..Len(calls) :
    LET run == calls[c]
        Position(k) == PositionOf(run.files, run.processed_data[k].File_Name)
    IN /\ \A k \in 1..Len(run.processed_data) :
            /\ \E i \in 1..Len(run.files) :
                 Basename(run.files[i]) = run.processed_data[k].File_Name
            /\ run.files[Position(k)] \notin corrupt
       /\ \A k1, k2 \in 1..Len(run.processed_data) :
            k1 < k2 => Position(k1) < Position(k2)
       /\ \A i \in 1..run.index :
            run.files[i] \in corrupt => HasDiagnostic(run.files[i])

\* The loop has moved past an unreadable document, diagnosed and with no
\* record, and the readable document after it, whose record is collected.
C2_Witness ==
  /\ calls # <<>>
  /\ Top.pc = "for"
  /\ Top.index = 2
  /\ Top.files[1] \in corrupt
  /\ HasDiagnostic(Top.files[1])
  /\ ~HasRecordIn(Top.processed_data, Top.files[1])
  /\ Len(Top.processed_data) = 1
  /\ PositionOf(Top.files, Top.processed_data[1].File_Name) = 2

\* C3: a run that ended before its loop reached the end of its documents,
\* with records already collected, has exported those records.
C3_PartialBatchExported ==
  (/\ Ended
   /\ Top.index < Len(Top.files)
   /\ Top.processed_data # <<>>) =>
    csv[Top.output_dir] = Some(Top.processed_data)

\* C4: a run that ends with no record (every document unreadable) ends in a
\* warning that there is nothing to export, as a call with nothing selected
\* does: not in an exception leaving the handler, not in a completion
\* report.
C4_EmptyBatchIsNothingToExport ==
  (Ended /\ ui_alive /\ Top.processed_data = <<>>) =>
    /\ dialog.kind = "warning"
    /\ ~uncaught

(***************************************************************************)
(* Properties of clean_amount (SpecAmount).                                *)
(***************************************************************************)
Separators == {",", "."}

\* The separator rule as the specification words it: with both separators
\* the leftmost one groups thousands and goes, the other is the decimal
\* point; commas alone go; otherwise the string stays.
SeparatorRule(s) ==
  LET seps == {i \in 1..Len(s) : s[i] \in Separators}
      both == Contains(s, ",") /\ Contains(s, ".")
      thousands == IF both THEN s[CHOOSE i \in seps : \A j \in seps : i <= j] ELSE ","
      kept == SelectSeq(s, LAMBDA c : c # thousands)
  IN [i \in 1..Len(kept) |-> IF kept[i] \in Separators THEN "." ELSE kept[i]]

\* The optional float that parsing s gives.
Parsed(s) == IF PyFloat(s) = ValueError THEN None ELSE Some(PyFloat(s))

Str_1p234c56 == <<"1", ".", "2", "3", "4", ",", "5", "6">>
Str_1c234p56 == <<"1", ",", "2", "3", "4", ".", "5", "6">>
Str_1c234 == <<"1", ",", "2", "3", "4">>
Str_1p234 == <<"1", ".", "2", "3", "4">>

\* C6: for every input of digits, commas and periods, clean_amount returns
\* what parsing the string rewritten by the separator rule gives; so
\* '1.234,56' and '1,234.56' give 1234.56, '1,234' gives 1234.0 and '1.234'
\* gives 1.234.
C6_SeparatorRule ==
  (/\ amount_pc = "return"
   /\ \A i \in 1..Len(amount_str) : amount_str[i] \in Digits \cup Separators) =>
    /\ amount_ret = Parsed(SeparatorRule(amount_str))
    /\ amount_str \in {Str_1p234c56, Str_1c234p56} =>
         amount_ret = Some(Finite(FALSE, 123456, -2))
    /\ amount_str = Str_1c234 => amount_ret = Some(Finite(FALSE, 1234, 0))
    /\ amount_str = Str_1p234 => amount_ret = Some(Finite(FALSE, 1234, -3))

\* '1.234,56' was normalised to 1234.56.
C6_Witness ==
  /\ amount_pc = "return"
  /\ amount_str = Str_1p234c56
  /\ amount_ret = Some(Finite(FALSE, 123456, -2))

\* amount_str is '(' + s + ')'.
Parenthesized(s) == Len(s) >= 2 /\ s[1] = "(" /\ s[Len(s)] = ")"
Inner(s) == SubSeq(s, 2, Len(s) - 1)

\* -|v|
NegAbs(v) == [v EXCEPT !.neg = TRUE]

\* C7: for every s that clean_amount parses to v, '(' + s + ')' gives -|v|;
\* and a result whose cleaned input begins with '-' is negative.
C7_ParenthesizedIsNegative ==
  amount_pc = "return" =>
    /\ (Parenthesized(amount_str) /\ clean_amount(Inner(amount_str)) # None) =>
         amount_ret = Some(NegAbs(clean_amount(Inner(amount_str))[1]))
    /\ (amount_str # <<>> /\ amount_str[1] = "-" /\ amount_ret # None) =>
         amount_ret[1].neg

\* The cleaned form of s is a decimal number: a sign, digits with at most one
\* point, an exponent (any literal ParseDecimal takes).
CleanedIsDecimal(s) ==
  LET cleaned == NormalizeSeparators(StripCurrency(StrStrip(s), 1))
      t == RStripOf(LStripOf(FloatText(cleaned), FloatWhitespace), FloatWhitespace)
      signed == t # <<>> /\ t[1] \in {"+", "-"}
      body == IF signed THEN Tail(t) ELSE t
  IN ParseDecimal(FALSE, [i \in 1..Len(body) |-> ToLower(body[i])]) # ValueError

\* C8: no call of clean_amount raises; it returns a finite number or None,
\* and None whenever the cleaned form is not a decimal number.
C8_NeverRaisesAbsentWhenUnparseable ==
  amount_pc # "call" =>
    /\ amount_pc = "return"
    /\ amount_ret # None => amount_ret[1].kind \in {"finite", "binary"}
    /\ ~CleanedIsDecimal(amount_str) => amount_ret = None

(***************************************************************************)
(* Properties of extract_expense_data (SpecExtract).                       *)
(***************************************************************************)
\* The value written on a line "label : value\n" of field f.
ValueOn(line, f) == SubSeq(line, Len(FieldLabel(f)) + 4, Len(line) - 1)

\* The lines with every missing or malformed line made well-formed, field
\* f's line kept.
AllPresent(ls, f) == [g \in Fields |-> IF g = f THEN ls[g] ELSE GoodLine(g)]

\* C5: whichever fields have a missing label or a malformed value, exactly
\* those fields are None, and every other field has the value it has when
\* all the labels are present.
C5_FieldsIndependent ==
  (extract_pc = "return" /\ lines \in ComboLines) =>
    \A f \in Fields :
      IF lines[f] \in BadLines(f)
      THEN FieldOf(data[1], f) = None
      ELSE FieldOf(data[1], f) =
             FieldOf(extract_expense_data(Join(AllPresent(lines, f))), f)

Str_ACME_Corp == <<"A", "C", "M", "E", "-", "C", "o", "r", "p", " ">>
Str_ACMECorp == <<"A", "C", "M", "E", "C", "o", "r", "p">>

\* C9: the legal entity holds only alphanumeric characters and '$' (the
\* underscore, punctuation, is none of them); the value 'ACME-Corp ' gives
\* 'ACMECorp'.
C9_OnlyAlphanumericAndDollar ==
  (extract_pc = "return" /\ data[1].legal_entity # None) =>
    /\ \A i \in 1..Len(data[1].legal_entity[1]) :
         data[1].legal_entity[1][i] \in (WordChars \ {"_"}) \cup {"$"}
    /\ lines[1] = Line(LegalEntityLabel, Str_ACME_Corp) \o NL =>
         data[1].legal_entity = Some(Str_ACMECorp)

\* The record section 8 of the specification gives for SummaryText.
SummaryRecord ==
  [file_name |-> None,
   legal_entity |-> Some(<<"A", "C", "M", "E", "$", "1">>),
   currency |-> Some(<<"U", "S", "D">>),
   amount_due_employee |-> Some(Finite(FALSE, 123456, -2)),
   amount_due_company_card |-> Some(Finite(TRUE, 200, 0)),
   total_paid_by_company |-> Some(Finite(FALSE, 103456, -2))]

\* C10: the summary text gives the record of section 8, every field
\* populated; and an amount value made of digits, commas, periods,
\* parentheses and minus signs reaches clean_amount as it is written.
C10_EndToEnd ==
  extract_pc = "return" =>
    /\ lines = SummaryLines => data = Some(SummaryRecord)
    /\ lines \in AmountLines =>
         data[1].amount_due_company_card = clean_amount(ValueOn(lines[4], 4))

====
